---------------------------- MODULE Spec2Model ----------------------------
(***************************************************************************)
(* A model of Project Sage: the chat-model manager (sage/model_manager.py  *)
(* over sage/config.py) and the ingestion pipeline (sage/cli.py update,    *)
(* sage/gui_app.py single-file reindex, over sage/file_processor.py and    *)
(* sage/vector_store.py); process_file in detail; the embedding resolver   *)
(* of the vector store; the store object and the query pipeline            *)
(* (sage/llm_client.py answer_question, cli ask, cli chat, GUI chat).      *)
(*                                                                         *)
(* Spec is a chat-model session, SpecIngest the ingestion of a project,    *)
(* SpecProcess the calls of process_file, SpecContext those of             *)
(* _extract_folder_context, SpecEmbed the construction of the store over   *)
(* the configurations and environments, SpecStore the store operations     *)
(* and the query front ends, SpecConfig the configuration file under       *)
(* ConfigManager and the GUI's settings, SpecCli the commands on a         *)
(* project before and after setup, SpecGuiIngest the GUI's ingestion       *)
(* threads, SpecGuiChat the GUI's chat thread beside the model menu.       *)
(*                                                                         *)
(* Python's None is the string "None"; provider names, model names, keys   *)
(* and paths are strings, so that f"{provider}:{model}" and the substring  *)
(* test of find_files are computed as the code computes them.              *)
(***************************************************************************)
EXTENDS Naturals, Sequences, FiniteSets, TLC

VARIABLES
    config,            \* the SageConfig object shared by the session
    HAS_OLLAMA,        \* whether langchain_ollama could be imported
    current_provider,  \* ModelManager.current_provider
    current_model,     \* ModelManager.current_model
    active_clients,    \* ModelManager.active_clients: key -> LLMClient
    nConstructed,      \* number of LLMClient objects constructed so far
    lastOp,            \* the operation that produced this state
    lastArgs,          \* its arguments
    lastRet,           \* what it returned
    streak,            \* consecutive get_llm_client calls ending here (0..2)
    reuse,             \* progress of "get under A, switch away, switch back, get"
    files,             \* project tree: path -> content version
    metadata,          \* .sage/file_metadata.json: path -> record
    collection,        \* the Chroma collection: a set of stored chunks
    nRuns,             \* ingestion operations run so far
    nEdits,            \* edits made to project files so far
    lastRun,           \* what the last ingestion operation did
    environ,           \* the process environment: variables, importable packages
    store,             \* the VectorStore object of the running process
    lastQuery,         \* what the last store or query operation did
    lastProcess,       \* the last process_file call: its inputs and its result
    config_file,       \* .sage/config.json: whether it exists, and its JSON object
    lastCommand,       \* the last ConfigManager call, or command its guard stopped
    workers,           \* the GUI's ingestion threads, in the order they were started
    chat_thread,       \* the GUI's chat thread: where it is, what it holds
    conversation_history  \* SageGUI.conversation_history

mmVars == <<config, HAS_OLLAMA, current_provider, current_model, active_clients,
            nConstructed, lastOp, lastArgs, lastRet, streak, reuse>>
ingVars == <<files, metadata, collection, nRuns, nEdits, lastRun>>
qVars == <<environ, store, lastQuery, lastProcess>>
cfgVars == <<config_file, lastCommand>>
guiVars == <<workers, chat_thread, conversation_history>>
vars == <<mmVars, ingVars, qVars, cfgVars, guiVars>>

None == "None"

-----------------------------------------------------------------------------
(* Bounds *)

MaxClients == 2     \* LLMClient constructions explored
MaxRuns == 2        \* ingestion operations explored
MaxEdits == 2       \* file edits explored
MaxContent == 2     \* content versions of a file: 0..MaxContent
MaxK == 3           \* largest k passed to search
MaxDocs == 3        \* longest chunk list passed to answer_question
MaxDepth == 4       \* deepest folder chain of a file below the project root
MaxWorkers == 2     \* ingestion threads the GUI is made to start
MaxHistory == 2     \* questions asked in the GUI chat

-----------------------------------------------------------------------------
(* sage/config.py *)

\* bool(x) of an Optional[str] / SecretStr field: None and "" are falsy.
Truthy(v) == v # None /\ v # ""

\* Faulty variant: falls back to the field defaults, not to the legacy pair.
GetIndexProviderModelDefault(c) ==
    IF Truthy(c.index_provider) /\ Truthy(c.index_model)
    THEN <<c.index_provider, c.index_model>>
    ELSE <<"google", "gemini-1.5-flash">>

GetIndexProviderModel(c) ==
    IF Truthy(c.index_provider) /\ Truthy(c.index_model)
    THEN <<c.index_provider, c.index_model>>
    ELSE <<c.llm_provider, c.llm_model>>

\* Faulty variant: the configured chat pair wins over the runtime override.
GetChatProviderModelConfiguredFirst(c) ==
    IF Truthy(c.chat_provider) /\ Truthy(c.chat_model)
    THEN <<c.chat_provider, c.chat_model>>
    ELSE IF Truthy(c.current_chat_provider) /\ Truthy(c.current_chat_model)
    THEN <<c.current_chat_provider, c.current_chat_model>>
    ELSE <<c.llm_provider, c.llm_model>>

GetChatProviderModel(c) ==
    IF Truthy(c.current_chat_provider) /\ Truthy(c.current_chat_model)
    THEN <<c.current_chat_provider, c.current_chat_model>>
    ELSE IF Truthy(c.chat_provider) /\ Truthy(c.chat_model)
    THEN <<c.chat_provider, c.chat_model>>
    ELSE <<c.llm_provider, c.llm_model>>

\* "sep".join(seq)
RECURSIVE Join(_, _)
Join(seq, sep) ==
    IF seq = <<>> THEN ""
    ELSE IF Len(seq) = 1 THEN seq[1]
    ELSE seq[1] \o sep \o Join(Tail(seq), sep)

\* The names between the slashes of s from position i on: a name runs from
\* its first character to the last one before the next slash or the end.
RECURSIVE SplitParts(_, _)
SplitParts(s, i) ==
    IF i > Len(s)
    THEN <<>>
    ELSE IF SubSeq(s, i, i) = "/"
    THEN SplitParts(s, i + 1)
    ELSE LET e == CHOOSE e \in i..Len(s) :
                      /\ \A j \in i..e : SubSeq(s, j, j) # "/"
                      /\ e = Len(s) \/ SubSeq(s, e + 1, e + 1) = "/"
         IN <<SubSeq(s, i, e)>> \o SplitParts(s, e + 1)

\* Path(s).parts: a Path is held as its parts, "/" first when it is absolute.
Parts(s) ==
    (IF Len(s) >= 1 /\ SubSeq(s, 1, 1) = "/" THEN <<"/">> ELSE <<>>)
        \o SplitParts(s, 1)

\* str(path)
PathStr(parts) ==
    IF parts = <<>> THEN "."
    ELSE IF Head(parts) = "/" THEN "/" \o Join(Tail(parts), "/")
    ELSE Join(parts, "/")

\* data.get(key, default)
Get(data, key, default) == IF key \in DOMAIN data THEN data[key] ELSE default

\* No configuration file.
NoFile == [exists |-> FALSE, data |-> <<>>]

\* ConfigManager.exists()
exists == config_file.exists

\* config.api_key.get_secret_value() if config.api_key else None: the truth
\* value of a SecretStr is len() of its secret, which raises for a SecretStr
\* that holds None.
SaveRaises(c) == c.api_key = None

\* x.get_secret_value() if x else None
SecretOrNone(v) == IF Truthy(v) THEN v ELSE None

\* The JSON object ConfigManager.save(config) writes: config.dict() leaves out
\* the fields declared with exclude=True, the runtime override.
SavedData(c) ==
    [project_path |-> PathStr(c.project_path),
     api_key |-> SecretOrNone(c.api_key),
     llm_provider |-> c.llm_provider,
     llm_model |-> c.llm_model,
     index_provider |-> c.index_provider,
     index_model |-> c.index_model,
     chat_provider |-> c.chat_provider,
     chat_model |-> c.chat_model,
     google_api_key |-> SecretOrNone(c.google_api_key),
     anthropic_api_key |-> SecretOrNone(c.anthropic_api_key),
     openai_api_key |-> SecretOrNone(c.openai_api_key)]

\* The SageConfig ConfigManager.load() builds from the JSON object of an
\* existing file: api_key is SecretStr(data.get('api_key', '')), which holds
\* None for a JSON null; fields the file lacks take their defaults.
LoadedConfig(data, project_path) ==
    [project_path |-> Parts(Get(data, "project_path", PathStr(project_path))),
     api_key |-> Get(data, "api_key", ""),
     llm_provider |-> Get(data, "llm_provider", "google"),
     llm_model |-> Get(data, "llm_model", "gemini-1.5-flash"),
     index_provider |-> Get(data, "index_provider", None),
     index_model |-> Get(data, "index_model", None),
     chat_provider |-> Get(data, "chat_provider", None),
     chat_model |-> Get(data, "chat_model", None),
     google_api_key |-> Get(data, "google_api_key", None),
     anthropic_api_key |-> Get(data, "anthropic_api_key", None),
     openai_api_key |-> Get(data, "openai_api_key", None),
     current_chat_provider |-> Get(data, "current_chat_provider", None),
     current_chat_model |-> Get(data, "current_chat_model", None)]

\* No SageConfig object: nothing was loaded.
NoConfig ==
    [project_path |-> <<>>, api_key |-> None, llm_provider |-> None,
     llm_model |-> None, index_provider |-> None, index_model |-> None,
     chat_provider |-> None, chat_model |-> None, google_api_key |-> None,
     anthropic_api_key |-> None, openai_api_key |-> None,
     current_chat_provider |-> None, current_chat_model |-> None]

\* A ConfigManager call, or a sage command that its guard stopped: value is
\* what the call returned ("None", "config", "raise") or "exit", exit_code the
\* command's exit code, loaded the result of load(), saved the argument of
\* the last save() that wrote the file.
NoCommand ==
    [op |-> "none", value |-> None, exit_code |-> 0, message |-> None,
     loaded |-> NoConfig, saved |-> NoConfig]

\* Faulty variant: the store is built before the configuration is tested.
NotInitializedAfterStore(cmd) ==
    /\ lastCommand' =
          [NoCommand EXCEPT !.op = cmd, !.value = "exit", !.exit_code = 1,
                            !.message =
                                "Project not initialized. Run 'sage setup' first.",
                            !.saved = lastCommand.saved]
    /\ store' = [constructed |-> TRUE, embeddings |-> None, vectorstore |-> FALSE]
    /\ UNCHANGED <<mmVars, ingVars, environ, lastQuery, lastProcess,
                   config_file, guiVars>>

\* What every command does first: config = config_manager.load(); if not
\* config: print the message and raise typer.Exit(1).
NotInitialized(cmd) ==
    /\ lastCommand' =
          [NoCommand EXCEPT !.op = cmd, !.value = "exit", !.exit_code = 1,
                            !.message =
                                "Project not initialized. Run 'sage setup' first.",
                            !.saved = lastCommand.saved]
    /\ UNCHANGED <<mmVars, ingVars, qVars, config_file, guiVars>>


-----------------------------------------------------------------------------
(* sage/model_manager.py *)

AVAILABLE_MODELS ==
    [google |-> {"gemini-1.5-flash", "gemini-1.5-pro", "gemini-2.0-flash-exp",
                 "gemini-exp-1206"},
     anthropic |-> {"claude-3-haiku-20240307", "claude-3-sonnet-20240229",
                    "claude-3-opus-20240229", "claude-3-5-sonnet-20241022",
                    "claude-3-5-haiku-20241022", "claude-4-latest",
                    "claude-4-preview"},
     openai |-> {"gpt-3.5-turbo", "gpt-4", "gpt-4-turbo", "gpt-4-turbo-preview",
                 "gpt-4o", "gpt-4o-mini", "gpt-5-preview", "gpt-5-turbo",
                 "o1-preview", "o1-mini"},
     ollama |-> {"llama3.1:8b", "llama3.1:70b", "llama3.1:405b", "llama3.2:1b",
                 "llama3.2:3b", "mixtral:8x7b", "mixtral:8x22b", "codellama:7b",
                 "codellama:13b", "codellama:34b", "deepseek-coder:6.7b",
                 "deepseek-coder:33b", "qwen2.5:7b", "qwen2.5:14b",
                 "qwen2.5:32b", "phi3:mini", "phi3:medium", "gemma2:2b",
                 "gemma2:9b", "gemma2:27b", "mistral:7b", "neural-chat:7b",
                 "orca-mini:3b", "vicuna:7b"}]

_has_api_key(provider) ==
    CASE provider = "google" ->
           Truthy(config.google_api_key)
             \/ (config.llm_provider = "google" /\ Truthy(config.api_key))
      [] provider = "anthropic" ->
           Truthy(config.anthropic_api_key)
             \/ (config.llm_provider = "anthropic" /\ Truthy(config.api_key))
      [] provider = "openai" ->
           Truthy(config.openai_api_key)
             \/ (config.llm_provider = "openai" /\ Truthy(config.api_key))
      [] provider = "ollama" -> HAS_OLLAMA
      [] OTHER -> FALSE

_get_api_key(provider) ==
    CASE provider = "google" ->
           IF Truthy(config.google_api_key) THEN config.google_api_key
           ELSE IF config.llm_provider = "google" THEN config.api_key ELSE ""
      [] provider = "anthropic" ->
           IF Truthy(config.anthropic_api_key) THEN config.anthropic_api_key
           ELSE IF config.llm_provider = "anthropic" THEN config.api_key ELSE ""
      [] provider = "openai" ->
           IF Truthy(config.openai_api_key) THEN config.openai_api_key
           ELSE IF config.llm_provider = "openai" THEN config.api_key ELSE ""
      [] provider = "ollama" -> "not-required"
      [] OTHER -> ""

\* f"{provider}:{model}"
ClientKey(provider, model) == provider \o ":" \o model

\* Faulty variant: the credential is not checked.
SwitchChecksNoCredential(provider, model) ==
    /\ provider \in DOMAIN AVAILABLE_MODELS
    /\ (model \in AVAILABLE_MODELS[provider] \/ provider = "ollama")

\* The three checks of switch_model that raise ValueError before any assignment.
SwitchChecks(provider, model) ==
    /\ provider \in DOMAIN AVAILABLE_MODELS
    /\ (model \in AVAILABLE_MODELS[provider] \/ provider = "ollama")
    /\ _has_api_key(provider)

\* Faulty variant: the override's model is not written.
RuntimeOverrideProviderOnly(c, provider, model) ==
    [c EXCEPT !.current_chat_provider = provider]

\* Faulty variant: the switch is written to the legacy pair as well.
RuntimeOverrideWritesLegacy(c, provider, model) ==
    [c EXCEPT !.current_chat_provider = provider, !.current_chat_model = model,
              !.llm_provider = provider, !.llm_model = model]

\* self.config.current_chat_provider = provider; ...current_chat_model = model
RuntimeOverride(c, provider, model) ==
    [c EXCEPT !.current_chat_provider = provider, !.current_chat_model = model]

\* Faulty variant: the target's cached client is kept.
ClientsAfterSwitchKeepAll(clients, key) == clients

\* Faulty variant: the whole cache is dropped.
ClientsAfterSwitchClearAll(clients, key) == [k \in {} |-> clients[k]]

\* if client_key in self.active_clients: del self.active_clients[client_key]
ClientsAfterSwitch(clients, key) ==
    [k \in (DOMAIN clients) \ {key} |-> clients[k]]

\* Faulty variant: the cache is never consulted.
MustConstructAlways(key) == TRUE

\* if client_key not in self.active_clients
MustConstruct(key) == key \notin DOMAIN active_clients

\* LLMClient(temp_config): _get_llm raises for an unsupported provider and for
\* ollama without langchain_ollama.
CanConstruct(provider) ==
    \/ provider \in {"google", "anthropic", "openai"}
    \/ (provider = "ollama" /\ HAS_OLLAMA)


NoClient == [id |-> 0, llm_provider |-> None, llm_model |-> None, api_key |-> None]

\* A call's result: value is "True"/"False" (switch_model), "client" or "raise"
\* (get_llm_client), "None" (a constructor).
Ret(value, client, constructed) ==
    [value |-> value, client |-> client, constructed |-> constructed]

\* ModelManager.get_current_model_info()
get_current_model_info == <<current_provider, current_model>>

\* What the scenario monitor remembers: which pair a client was built for.
NoReuse == [stage |-> 0, provider |-> None, model |-> None, client |-> 0]

ReuseAfterSwitch(provider, model) ==
    LET same == reuse.provider = provider /\ reuse.model = model IN
    CASE reuse.stage = 1 -> IF same THEN NoReuse ELSE [reuse EXCEPT !.stage = 2]
      [] reuse.stage = 2 -> IF same THEN [reuse EXCEPT !.stage = 3] ELSE reuse
      [] reuse.stage = 3 -> IF same THEN reuse ELSE [reuse EXCEPT !.stage = 2]
      [] OTHER -> NoReuse

ReuseAfterGet(client) ==
    IF reuse.stage = 3
    THEN [reuse EXCEPT !.stage = 4]
    ELSE [stage |-> 1, provider |-> current_provider, model |-> current_model,
          client |-> client.id]

\* ModelManager.__init__(config)
ModelManagerInit ==
    LET pair == GetChatProviderModel(config) IN
    /\ current_provider' = pair[1]
    /\ current_model' = pair[2]
    /\ active_clients' = [k \in {} |-> 0]
    /\ lastOp' = "init"
    /\ lastArgs' = <<>>
    /\ lastRet' = Ret("None", NoClient, FALSE)
    /\ streak' = 0
    /\ reuse' = NoReuse
    /\ UNCHANGED <<config, HAS_OLLAMA, nConstructed, ingVars, qVars, cfgVars, guiVars>>

\* ModelManager.switch_model(provider, model)
switch_model(provider, model) ==
    /\ lastOp' = "switch_model"
    /\ lastArgs' = <<provider, model>>
    /\ streak' = 0
    /\ IF SwitchChecks(provider, model)
       THEN /\ current_provider' = provider
            /\ current_model' = model
            /\ config' = RuntimeOverride(config, provider, model)
            /\ active_clients' =
                   ClientsAfterSwitch(active_clients, ClientKey(provider, model))
            /\ lastRet' = Ret("True", NoClient, FALSE)
            /\ reuse' = ReuseAfterSwitch(provider, model)
       ELSE /\ lastRet' = Ret("False", NoClient, FALSE)
            /\ reuse' = IF reuse.stage = 4 THEN NoReuse ELSE reuse
            /\ UNCHANGED <<current_provider, current_model, config, active_clients>>
    /\ UNCHANGED <<HAS_OLLAMA, nConstructed, ingVars, qVars, cfgVars, guiVars>>

\* ModelManager.get_llm_client(): what it does to the manager; the caller's
\* frame is added where it is called.
get_llm_client ==
    LET client_key == ClientKey(current_provider, current_model)
        fresh == [id |-> nConstructed + 1,
                  llm_provider |-> current_provider,
                  llm_model |-> current_model,
                  api_key |-> _get_api_key(current_provider)]
    IN
    /\ lastOp' = "get_llm_client"
    /\ lastArgs' = <<>>
    /\ IF MustConstruct(client_key)
       THEN IF CanConstruct(current_provider)
            THEN /\ nConstructed < MaxClients
                 /\ nConstructed' = nConstructed + 1
                 /\ active_clients' =
                        [k \in (DOMAIN active_clients) \cup {client_key} |->
                            IF k = client_key THEN fresh ELSE active_clients[k]]
                 /\ lastRet' = Ret("client", fresh, TRUE)
                 /\ reuse' = ReuseAfterGet(fresh)
                 /\ streak' = IF streak < 2 THEN streak + 1 ELSE 2
            ELSE /\ lastRet' = Ret("raise", NoClient, FALSE)
                 /\ reuse' = NoReuse
                 /\ streak' = 0
                 /\ UNCHANGED <<nConstructed, active_clients>>
       ELSE /\ lastRet' = Ret("client", active_clients[client_key], FALSE)
            /\ reuse' = ReuseAfterGet(active_clients[client_key])
            /\ streak' = IF streak < 2 THEN streak + 1 ELSE 2
            /\ UNCHANGED <<nConstructed, active_clients>>
    /\ UNCHANGED <<config, HAS_OLLAMA, current_provider, current_model>>

-----------------------------------------------------------------------------
(* sage/file_processor.py, sage/vector_store.py *)

ProjectPath == "/proj"

SUPPORTED_EXTENSIONS == {".pdf", ".docx", ".pptx", ".xlsx", ".txt", ".md"}

\* Python's "sub in s" on strings.
Contains(s, sub) ==
    \E i \in 1..(Len(s) + 1 - Len(sub)) : SubSeq(s, i, i + Len(sub) - 1) = sub

EndsWith(s, suffix) ==
    /\ Len(s) >= Len(suffix)
    /\ SubSeq(s, Len(s) - Len(suffix) + 1, Len(s)) = suffix

\* project_path.rglob(f"*{ext}") for some ext of SUPPORTED_EXTENSIONS
MatchesSupportedExtension(path) ==
    \E ext \in SUPPORTED_EXTENSIONS : EndsWith(path, ext)

\* get_file_hash: the MD5 digest of the content, one digest per content version.
get_file_hash(content) == <<"md5", content>>

\* load_metadata for find_files: {} when force
ScanMetadata(force) == IF force THEN <<>> ELSE metadata

\* if ".sage" in str(file_path): continue
SkippedAsSage(path) == Contains(path, ".sage")

\* if force or file_str not in metadata or metadata[file_str].get('hash') != file_hash
NeedsProcessing(path, force) ==
    LET md == ScanMetadata(force) IN
    \/ force
    \/ path \notin DOMAIN md
    \/ md[path].hash # get_file_hash(files[path])

\* The order in which the extension loop and rglob yield the project's files.
ScanOrder ==
    <<"/proj/plan.txt", "/proj/docs/memo.md", "/proj/docs/notes.sage.md",
      "/proj/.sage/db/readme.txt", "/proj/logo.png">>

Paths == {ScanOrder[i] : i \in 1..Len(ScanOrder)}

Range(seq) == {seq[i] : i \in 1..Len(seq)}

\* The two path tests of find_files, tabulated over the project's paths.
Globbed == [path \in Paths |-> MatchesSupportedExtension(path)]
Skipped == [path \in Paths |-> SkippedAsSage(path)]

\* FileProcessor.find_files(project_path, force)
find_files(force) ==
    LET Keep(path) == /\ path \in DOMAIN files
                      /\ Globbed[path]
                      /\ ~Skipped[path]
                      /\ NeedsProcessing(path, force)
    IN SelectSeq(ScanOrder, Keep)

\* file_path.relative_to(project_path) on the parts of the two paths: the
\* parts after project_path's, or ValueError.
relative_to(file_parts, project_parts) ==
    IF /\ Len(file_parts) >= Len(project_parts)
       /\ SubSeq(file_parts, 1, Len(project_parts)) = project_parts
    THEN [raises |-> FALSE,
          parts |-> SubSeq(file_parts, Len(project_parts) + 1, Len(file_parts))]
    ELSE [raises |-> TRUE, parts |-> <<>>]

\* The lookup table of phase descriptions, with .get(main_phase, main_phase).
phase_desc(main_phase) ==
    CASE main_phase = "01.Origination&Dev" ->
           "Project Development and Origination Phase"
      [] main_phase = "02.Execution" ->
           "Project Construction and Execution Phase"
      [] main_phase = "03.Operation" ->
           "Project Operation and Maintenance Phase"
      [] OTHER -> main_phase

\* rel_path.parts[:-1]
AllButLast(parts) == IF parts = <<>> THEN <<>> ELSE SubSeq(parts, 1, Len(parts) - 1)

\* Faulty variant: the first two levels are taken in the other order.
ExtractFolderContextSwapped(file_path, project_path) ==
    LET rel_path == relative_to(Parts(file_path), Parts(project_path))
        path_parts == AllButLast(rel_path.parts)
        Level(i) == IF Len(path_parts) >= i THEN path_parts[i] ELSE ""
        folder_hierarchy == IF path_parts # <<>> THEN Join(path_parts, " > ")
                            ELSE "root"
    IN
    IF rel_path.raises
    THEN [project_category |-> "unknown", main_phase |-> "unknown",
          sub_category |-> "unknown", specific_area |-> "unknown",
          folder_hierarchy |-> "unknown",
          phase_description |-> "Unknown project phase"]
    ELSE IF Level(2) # ""
    THEN [project_category |-> Level(1), main_phase |-> Level(2),
          sub_category |-> Level(3), specific_area |-> Level(4),
          folder_hierarchy |-> folder_hierarchy,
          phase_description |-> phase_desc(Level(2))]
    ELSE [project_category |-> Level(1), main_phase |-> Level(2),
          sub_category |-> Level(3), specific_area |-> Level(4),
          folder_hierarchy |-> folder_hierarchy]

\* FileProcessor._extract_folder_context(file_path, project_path): the dict it
\* returns, which has no phase_description key when there is no main phase.
_extract_folder_context(file_path, project_path) ==
    LET rel_path == relative_to(Parts(file_path), Parts(project_path))
        path_parts == AllButLast(rel_path.parts)
        Level(i) == IF Len(path_parts) >= i THEN path_parts[i] ELSE ""
        folder_hierarchy == IF path_parts # <<>> THEN Join(path_parts, " > ")
                            ELSE "root"
    IN
    IF rel_path.raises
    THEN [project_category |-> "unknown", main_phase |-> "unknown",
          sub_category |-> "unknown", specific_area |-> "unknown",
          folder_hierarchy |-> "unknown",
          phase_description |-> "Unknown project phase"]
    ELSE IF Level(1) # ""
    THEN [project_category |-> Level(2), main_phase |-> Level(1),
          sub_category |-> Level(3), specific_area |-> Level(4),
          folder_hierarchy |-> folder_hierarchy,
          phase_description |-> phase_desc(Level(1))]
    ELSE [project_category |-> Level(2), main_phase |-> Level(1),
          sub_category |-> Level(3), specific_area |-> Level(4),
          folder_hierarchy |-> folder_hierarchy]

\* folder_context of process_file: {} unless project_path is given.
FolderContext(file_path, project_path) ==
    IF project_path = None
    THEN <<>>
    ELSE _extract_folder_context(file_path, project_path)

\* file_path.name
Name(file_path) ==
    LET parts == Parts(file_path) IN
    IF parts = <<>> THEN "" ELSE parts[Len(parts)]

\* context_prefix of process_file: "" unless project_path is given.
ContextPrefix(file_path, project_path) ==
    LET folder_context == FolderContext(file_path, project_path) IN
    IF project_path = None
    THEN ""
    ELSE "\nDocument Context:\n- Project Phase: "
           \o Get(folder_context, "phase_description", "Unknown")
           \o "\n- Category: "
           \o Get(folder_context, "project_category", "Unknown")
           \o "\n- Location: "
           \o Get(folder_context, "folder_hierarchy", "Unknown")
           \o "\n- File: " \o Name(file_path)
           \o "\n\nContent:\n"

\* What the i-th chunk begins with: enhanced_text is the prefix followed by
\* the text, and the splitter cuts it into consecutive pieces, so only the
\* first chunk begins with the prefix.
ChunkPrefix(file_path, project_path, i) ==
    IF i = 1 THEN ContextPrefix(file_path, project_path) ELSE ""

\* FileProcessor.process_file(file_path), as update and the GUI call it,
\* without a project_path: content version 0 stands for a file whose
\* extraction fails or yields no text (the result is []); version n > 0
\* splits into n chunks.  batch stands for the ids Chroma gives the chunks of
\* one add_documents call.
process_file(path, batch) ==
    LET n == files[path] IN
    [i \in 1..n |-> [source |-> path, text |-> files[path],
                     chunk_index |-> i - 1, total_chunks |-> n, batch |-> batch,
                     context_prefix |-> ChunkPrefix(path, None, i),
                     folder_context |-> FolderContext(path, None)]]

\* FileProcessor.update_metadata(project_path, file_path, documents); now
\* stands for datetime.now(), one instant per ingestion operation.
update_metadata(md, path, documents, now) ==
    [p \in (DOMAIN md) \cup {path} |->
        IF p = path
        THEN [hash |-> get_file_hash(files[path]), processed_at |-> now,
              chunk_count |-> Len(documents)]
        ELSE md[p]]

\* VectorStore.add_documents(documents) on an initialized store
add_documents(coll, documents) == coll \cup Range(documents)

\* VectorStore.clear() on an initialized store
clear(coll) == {}

-----------------------------------------------------------------------------
(* sage/cli.py update, sage/gui_app.py _reindex_single_file *)

NoRun == [op |-> "none", force |-> FALSE, file |-> None, afterUpdate |-> FALSE,
          selected |-> <<>>, failed |-> <<>>, total_documents |-> 0]

\* What can go wrong for one file after its text was extracted: add_documents
\* raises (the embedding provider fails), or update_metadata raises (the
\* metadata cache cannot be read or written).
Faults == {"none", "embed", "metadata"}

\* The fault plans of a run: one fault per selected file.
FaultPlans(selected) == [Range(selected) -> Faults]

\* Faulty variant: a file without chunks is dropped without being reported.
ProcessOneSilent(st, path, batch, faults) ==
    LET documents == process_file(path, batch) IN
    IF documents = <<>>
    THEN st
    ELSE IF faults[path] = "embed"
    THEN [st EXCEPT !.failed = Append(st.failed, path)]
    ELSE IF faults[path] = "metadata"
    THEN [st EXCEPT !.coll = add_documents(st.coll, documents),
                    !.failed = Append(st.failed, path)]
    ELSE [st EXCEPT !.coll = add_documents(st.coll, documents),
                    !.md = update_metadata(st.md, path, documents, batch),
                    !.total_documents = st.total_documents + Len(documents)]

\* One pass of the body of "for file_path in files_to_process".
ProcessOne(st, path, batch, faults) ==
    LET documents == process_file(path, batch) IN
    IF documents = <<>>
    THEN [st EXCEPT !.failed = Append(st.failed, path)]
    ELSE IF faults[path] = "embed"
    THEN [st EXCEPT !.failed = Append(st.failed, path)]
    ELSE IF faults[path] = "metadata"
    THEN [st EXCEPT !.coll = add_documents(st.coll, documents),
                    !.failed = Append(st.failed, path)]
    ELSE [st EXCEPT !.coll = add_documents(st.coll, documents),
                    !.md = update_metadata(st.md, path, documents, batch),
                    !.total_documents = st.total_documents + Len(documents)]

RECURSIVE ProcessFiles(_, _, _, _)
ProcessFiles(files_to_process, st, batch, faults) ==
    IF files_to_process = <<>>
    THEN st
    ELSE ProcessFiles(Tail(files_to_process),
                      ProcessOne(st, Head(files_to_process), batch, faults),
                      batch, faults)

\* sage update [--force]
update(force, faults) ==
    LET files_to_process == find_files(force)
        start == [coll |-> IF force THEN clear(collection) ELSE collection,
                  md |-> metadata, failed |-> <<>>, total_documents |-> 0]
        done == ProcessFiles(files_to_process, start, nRuns + 1, faults)
    IN
    IF ~exists
    THEN NotInitialized("update")
    ELSE /\ nRuns < MaxRuns
         /\ faults \in FaultPlans(files_to_process)
         /\ nRuns' = nRuns + 1
         /\ IF files_to_process = <<>>
            THEN UNCHANGED <<collection, metadata>>
            ELSE /\ collection' = done.coll
                 /\ metadata' = done.md
         /\ lastRun' = [op |-> "update", force |-> force, file |-> None,
                        afterUpdate |-> FALSE,
                        selected |-> files_to_process, failed |-> done.failed,
                        total_documents |-> done.total_documents]
         /\ UNCHANGED <<files, nEdits, mmVars, qVars, cfgVars, guiVars>>

\* SageGUI._reindex_single_file(file_path), for a file picked in the files
\* view, which lists the files of the metadata cache.
_reindex_single_file(path, faults) ==
    LET start == [coll |-> collection, md |-> metadata, failed |-> <<>>,
                  total_documents |-> 0]
        done == ProcessOne(start, path, nRuns + 1, faults)
    IN
    /\ nRuns < MaxRuns
    /\ path \in DOMAIN metadata
    /\ path \in DOMAIN files
    /\ faults \in FaultPlans(<<path>>)
    /\ nRuns' = nRuns + 1
    /\ collection' = done.coll
    /\ metadata' = done.md
    /\ lastRun' = [op |-> "reindex", force |-> FALSE, file |-> path,
                   afterUpdate |-> FALSE,
                   selected |-> <<path>>, failed |-> done.failed,
                   total_documents |-> done.total_documents]
    /\ UNCHANGED <<files, nEdits, mmVars, qVars, cfgVars, guiVars>>

\* The user changes the content of one project file between runs.
EditFile(path, content) ==
    /\ nEdits < MaxEdits
    /\ path \in DOMAIN files
    /\ content # files[path]
    /\ files' = [files EXCEPT ![path] = content]
    /\ nEdits' = nEdits + 1
    /\ lastRun' = [NoRun EXCEPT !.op = "edit", !.file = path,
                                !.afterUpdate = (lastRun.op = "update"
                                                   /\ ~lastRun.force)]
    /\ UNCHANGED <<metadata, collection, nRuns, mmVars, qVars, cfgVars, guiVars>>

-----------------------------------------------------------------------------
(* sage/file_processor.py: process_file in detail *)

\* What one extraction call (partition_pdf, partition_docx, ...) can do: raise,
\* or return elements whose text is empty, shorter than 100 characters, or
\* longer.
Outcomes == {"raise", "empty", "short", "long"}

\* "\n\n".join(str(el) for el in elements), per outcome.
TextOf ==
    [empty |-> "",
     short |-> "Total investment: $45,000,000",
     long  |-> "Minutes of the steering committee: the budget was approved."]

\* FileProcessor._process_pdf(file_path): auto is what partition_pdf does with
\* strategy "auto", ocr what it does with strategy "ocr_only".  The result is
\* the outcome that carries the elements returned ("empty" for []).
_process_pdf(auto, ocr) ==
    IF auto = "raise"
    THEN IF ocr = "raise" THEN "empty" ELSE ocr
    ELSE IF auto \in {"empty", "short"}
    THEN IF ocr = "raise"
         THEN "empty"      \* the handler retries OCR, which raises again: []
         ELSE ocr
    ELSE auto

\* text_splitter.create_documents for a text shorter than chunk_size: no
\* chunk for the empty text, one chunk otherwise.
create_documents(text, source) ==
    IF text = ""
    THEN <<>>
    ELSE <<[source |-> source, text |-> text, chunk_index |-> 0,
            total_chunks |-> 1]>>

\* FileProcessor.process_file(file_path, project_path) for a file named
\* file<ext>: first is what the extraction call for the extension does, ocr
\* what OCR does (PDF only).
ProcessFile(ext, project_path, first, ocr) ==
    LET elements == IF ext = ".pdf" THEN _process_pdf(first, ocr) ELSE first IN
    IF elements = "raise"
    THEN [value |-> "list", documents |-> <<>>]
    ELSE [value |-> "list",
          documents |-> create_documents(
              ContextPrefix("/proj/file" \o ext, project_path) \o TextOf[elements],
              "/proj/file" \o ext)]

NoProcess == [op |-> "none", ext |-> None, file_path |-> None,
              project_path |-> None, first |-> None, ocr |-> None,
              value |-> None, documents |-> <<>>, context |-> <<>>]

\* One call of process_file, its inputs and result recorded.
process_file_call(ext, project_path, first, ocr) ==
    LET ret == ProcessFile(ext, project_path, first, ocr) IN
    /\ lastProcess' = [NoProcess EXCEPT !.op = "process_file", !.ext = ext,
                                        !.file_path = "/proj/file" \o ext,
                                        !.project_path = project_path,
                                        !.first = first, !.ocr = ocr,
                                        !.value = ret.value,
                                        !.documents = ret.documents]
    /\ UNCHANGED <<mmVars, ingVars, environ, store, lastQuery, cfgVars, guiVars>>

\* The call of _extract_folder_context on the arguments that wait in
\* lastProcess, its result recorded.
_extract_folder_context_call ==
    /\ lastProcess.op = "none"
    /\ lastProcess.file_path # None
    /\ lastProcess' =
          [lastProcess EXCEPT !.op = "_extract_folder_context",
                              !.value = "dict",
                              !.context =
                                  _extract_folder_context(
                                      lastProcess.file_path,
                                      lastProcess.project_path)]
    /\ UNCHANGED <<mmVars, ingVars, environ, store, lastQuery, cfgVars, guiVars>>

-----------------------------------------------------------------------------
(* sage/vector_store.py: the embedding resolver *)

NoEmbeddings == [backend |-> None, model |-> None, api_key |-> None]

\* OpenAIEmbeddings(model=...) without openai_api_key: langchain takes the key
\* from the process environment and raises when OPENAI_API_KEY is not set.
OpenAIEmbeddingsFromEnv(env) ==
    IF Truthy(env.OPENAI_API_KEY)
    THEN [raises |-> FALSE,
          embeddings |-> [backend |-> "OpenAIEmbeddings",
                          model |-> "text-embedding-3-small",
                          api_key |-> env.OPENAI_API_KEY]]
    ELSE [raises |-> TRUE, embeddings |-> NoEmbeddings]

\* The ollama branch: OllamaEmbeddings if importable and constructible, else
\* HuggingFaceEmbeddings if importable, else ValueError.
OllamaBranch(env, hasOllama) ==
    IF hasOllama /\ ~env.OllamaEmbeddingsRaises
    THEN [raises |-> FALSE,
          embeddings |-> [backend |-> "OllamaEmbeddings",
                          model |-> "nomic-embed-text", api_key |-> None]]
    ELSE IF env.HAS_HUGGINGFACE
    THEN [raises |-> FALSE,
          embeddings |-> [backend |-> "HuggingFaceEmbeddings",
                          model |-> "sentence-transformers/all-MiniLM-L6-v2",
                          api_key |-> None]]
    ELSE [raises |-> TRUE, embeddings |-> NoEmbeddings]

\* VectorStore._get_embeddings()
_get_embeddings(c, env, hasOllama) ==
    CASE c.llm_provider = "google" ->
           [raises |-> FALSE,
            embeddings |-> [backend |-> "GoogleGenerativeAIEmbeddings",
                            model |-> "models/text-embedding-004",
                            api_key |-> c.api_key]]
      [] c.llm_provider = "anthropic" -> OpenAIEmbeddingsFromEnv(env)
      [] c.llm_provider = "openai" ->
           [raises |-> FALSE,
            embeddings |-> [backend |-> "OpenAIEmbeddings",
                            model |-> "text-embedding-3-small",
                            api_key |-> c.api_key]]
      [] c.llm_provider = "ollama" -> OllamaBranch(env, hasOllama)
      [] OTHER -> [raises |-> TRUE, embeddings |-> NoEmbeddings]

NoStore == [constructed |-> FALSE, embeddings |-> NoEmbeddings,
            vectorstore |-> FALSE]

NoShown == [answer |-> None, sources |-> <<>>, error_marked |-> FALSE,
            message |-> None]

\* A store or query operation: value is what it returned or "raise"; answered
\* tells that answer_question was called; error |-> FALSE stands for a result
\* without the "error" key.
NoQuery == [op |-> "none", k |-> 0, documents |-> <<>>, value |-> None,
            count |-> 0, answer |-> None, sources |-> <<>>,
            documents_used |-> 0, error |-> FALSE, chain |-> None,
            answered |-> FALSE, client |-> <<None, None>>, shown |-> NoShown]

\* VectorStore.__init__(config)
VectorStoreInit ==
    LET resolved == _get_embeddings(config, environ, HAS_OLLAMA) IN
    /\ store' = IF resolved.raises
                THEN NoStore
                ELSE [constructed |-> TRUE, embeddings |-> resolved.embeddings,
                      vectorstore |-> FALSE]
    /\ lastQuery' = [NoQuery EXCEPT !.op = "VectorStore",
                                    !.value = IF resolved.raises THEN "raise"
                                              ELSE "None"]
    /\ UNCHANGED <<mmVars, ingVars, environ, lastProcess, cfgVars, guiVars>>

-----------------------------------------------------------------------------
(* sage/vector_store.py: the store object over the persisted collection *)

\* VectorStore.initialize()
VectorStore_initialize ==
    /\ store.constructed
    /\ store' = [store EXCEPT !.vectorstore = TRUE]
    /\ lastQuery' = [NoQuery EXCEPT !.op = "initialize", !.value = "None"]
    /\ UNCHANGED <<mmVars, ingVars, environ, lastProcess, cfgVars, guiVars>>

\* VectorStore.add_documents(documents): embedFails is the embedding provider
\* failing on the call.
VectorStore_add_documents(documents, embedFails) ==
    /\ store.constructed
    /\ store' = [store EXCEPT !.vectorstore = TRUE]
    /\ IF documents # <<>> /\ embedFails
       THEN /\ lastQuery' = [NoQuery EXCEPT !.op = "add_documents",
                                            !.documents = documents,
                                            !.value = "raise"]
            /\ UNCHANGED collection
       ELSE /\ lastQuery' = [NoQuery EXCEPT !.op = "add_documents",
                                            !.documents = documents,
                                            !.value = "None"]
            /\ collection' = IF documents # <<>>
                             THEN add_documents(collection, documents)
                             ELSE collection
    /\ UNCHANGED <<mmVars, files, metadata, nRuns, nEdits, lastRun, environ,
                   lastProcess, cfgVars, guiVars>>

\* What VectorStore.clear() leaves in the collection: nothing is deleted
\* unless self.vectorstore is set.
Cleared(st, coll) == IF st.vectorstore THEN clear(coll) ELSE coll

\* VectorStore.clear()
VectorStore_clear ==
    /\ store.constructed
    /\ collection' = Cleared(store, collection)
    /\ lastQuery' = [NoQuery EXCEPT !.op = "clear", !.value = "None"]
    /\ UNCHANGED <<mmVars, files, metadata, nRuns, nEdits, lastRun, environ,
                   store, lastProcess, cfgVars, guiVars>>

\* VectorStore.get_document_count()
VectorStore_get_document_count ==
    /\ store.constructed
    /\ store' = [store EXCEPT !.vectorstore = TRUE]
    /\ lastQuery' = [NoQuery EXCEPT !.op = "get_document_count",
                                    !.value = "int",
                                    !.count = Cardinality(collection)]
    /\ UNCHANGED <<mmVars, ingVars, environ, lastProcess, cfgVars, guiVars>>

Min(a, b) == IF a < b THEN a ELSE b

\* The sequences without repetition of n elements of S.
Arrangements(S, n) ==
    {seq \in [1..n -> S] : \A i, j \in 1..n : seq[i] = seq[j] => i = j}

\* similarity_search(query, k): the k nearest chunks, nearest first, or all
\* of them when fewer are stored; which are nearest depends on the query.
similarity_search(coll, k) == Arrangements(coll, Min(k, Cardinality(coll)))

\* VectorStore.search(query, k): embedFails is the embedding provider failing
\* to embed the query.
VectorStore_search(k, embedFails) ==
    /\ store.constructed
    /\ store' = [store EXCEPT !.vectorstore = TRUE]
    /\ IF embedFails
       THEN lastQuery' = [NoQuery EXCEPT !.op = "search", !.k = k,
                                         !.value = "raise"]
       ELSE \E documents \in similarity_search(collection, k) :
               lastQuery' = [NoQuery EXCEPT !.op = "search", !.k = k,
                                            !.value = "list",
                                            !.documents = documents]
    /\ UNCHANGED <<mmVars, ingVars, environ, lastProcess, cfgVars, guiVars>>

-----------------------------------------------------------------------------
(* sage/llm_client.py answer_question; the query front ends of sage/cli.py   *)
(* and sage/gui_app.py                                                       *)

\* What self.chain.invoke does: returns a response, or raises.
ChainOutcomes == {"response", "raise"}

ResponseText == "The total investment is $45,000,000."
ChainError == "401 unauthorized"

\* The set built by sources.add(source) over the documents.
Sources(documents) == {documents[i].source : i \in 1..Len(documents)}

\* list(sources): the elements of a set of strings, each once, in the order
\* the interpreter's string hashing of the run gives them.
ListOfSet(S) == Arrangements(S, Cardinality(S))

\* Faulty variant: the error result reports no sources.
AnswerQuestionDropsSources(documents, chain, order) ==
    IF chain = "response"
    THEN [answer |-> ResponseText, sources |-> order,
          documents_used |-> Len(documents), error |-> FALSE]
    ELSE [answer |-> "Error generating answer: " \o ChainError,
          sources |-> <<>>,
          documents_used |-> Len(documents), error |-> TRUE]

\* LLMClient.answer_question(question, documents), order being list(sources)
AnswerQuestion(documents, chain, order) ==
    IF chain = "response"
    THEN [answer |-> ResponseText, sources |-> order,
          documents_used |-> Len(documents), error |-> FALSE]
    ELSE [answer |-> "Error generating answer: " \o ChainError,
          sources |-> order,
          documents_used |-> Len(documents), error |-> TRUE]

\* One call of answer_question on a client that was built.
answer_question(documents, chain) ==
    \E order \in ListOfSet(Sources(documents)) :
        LET result == AnswerQuestion(documents, chain, order) IN
        /\ lastQuery' = [NoQuery EXCEPT !.op = "answer_question",
                                        !.documents = documents,
                                        !.chain = chain,
                                        !.value = "dict",
                                        !.answer = result.answer,
                                        !.sources = result.sources,
                                        !.documents_used = result.documents_used,
                                        !.error = result.error]
        /\ UNCHANGED <<mmVars, ingVars, environ, store, lastProcess, cfgVars,
                       guiVars>>

\* What a front end shows for a result: cli ask prints the answer panel, the
\* sources, and a note in bold red when the result carries the error flag.
AskShows(result) ==
    [answer |-> result.answer, sources |-> result.sources,
     error_marked |-> result.error,
     message |-> IF result.error
                 THEN "Note: There was an error generating the answer."
                 ELSE None]

\* cli chat and the GUI chat print "Error: <answer>" for a result with the
\* error flag and go on to the next question; else the answer and sources.
ChatShows(result) ==
    IF result.error
    THEN [answer |-> None, sources |-> <<>>, error_marked |-> TRUE,
          message |-> "Error: " \o result.answer]
    ELSE [answer |-> result.answer, sources |-> result.sources,
          error_marked |-> FALSE, message |-> None]

\* The message of the "except Exception" handler around a chat turn.
ChatShowsException ==
    [answer |-> None, sources |-> <<>>, error_marked |-> TRUE,
     message |-> "Error: exception"]

\* sage ask <query>: a process of its own, which loads the configuration,
\* builds and opens the store.
ask(embedFails, chain) ==
    LET loaded == LoadedConfig(config_file.data, Parts(ProjectPath))
        resolved == _get_embeddings(loaded, environ, HAS_OLLAMA)
        opened == [constructed |-> TRUE, embeddings |-> resolved.embeddings,
                   vectorstore |-> TRUE]
        q == [NoQuery EXCEPT !.op = "ask", !.k = 5, !.chain = chain,
                             !.count = Cardinality(collection)]
    IN
    IF ~exists
    THEN NotInitialized("ask")
    ELSE
    /\ IF resolved.raises
       THEN /\ store' = NoStore
            /\ lastQuery' = [q EXCEPT !.value = "raise", !.count = 0]
       ELSE /\ store' = opened
            /\ IF collection = {}
               THEN lastQuery' =
                      [q EXCEPT !.value = "exit 1",
                                !.shown = [NoShown EXCEPT !.message =
                                             "Knowledge base is empty."]]
               ELSE IF embedFails
               THEN lastQuery' = [q EXCEPT !.value = "raise"]
               ELSE \E documents \in similarity_search(collection, 5) :
                      IF documents = <<>>
                      THEN lastQuery' =
                             [q EXCEPT !.value = "return",
                                       !.shown = [NoShown EXCEPT !.message =
                                           "No relevant documents found."]]
                      ELSE IF ~CanConstruct(loaded.llm_provider)
                      THEN lastQuery' = [q EXCEPT !.value = "raise",
                                                  !.documents = documents]
                      ELSE \E order \in ListOfSet(Sources(documents)) :
                             LET result ==
                                   AnswerQuestion(documents, chain, order)
                             IN lastQuery' =
                                  [q EXCEPT !.value = "return",
                                            !.documents = documents,
                                            !.answered = TRUE,
                                            !.answer = result.answer,
                                            !.sources = result.sources,
                                            !.documents_used =
                                                result.documents_used,
                                            !.error = result.error,
                                            !.client = <<loaded.llm_provider,
                                                         loaded.llm_model>>,
                                            !.shown = AskShows(result)]
    /\ UNCHANGED <<mmVars, ingVars, environ, lastProcess, cfgVars, guiVars>>

\* sage status
status ==
    LET loaded == LoadedConfig(config_file.data, Parts(ProjectPath))
        resolved == _get_embeddings(loaded, environ, HAS_OLLAMA)
    IN
    IF ~exists
    THEN NotInitialized("status")
    ELSE /\ IF resolved.raises
            THEN /\ store' = NoStore
                 /\ lastQuery' = [NoQuery EXCEPT !.op = "status",
                                                 !.value = "raise"]
            ELSE /\ store' = [constructed |-> TRUE,
                              embeddings |-> resolved.embeddings,
                              vectorstore |-> TRUE]
                 /\ lastQuery' = [NoQuery EXCEPT !.op = "status",
                                                 !.value = "return",
                                                 !.count = Cardinality(collection)]
         /\ UNCHANGED <<mmVars, ingVars, environ, lastProcess, cfgVars, guiVars>>

\* ModelManager.get_configured_providers()
get_configured_providers ==
    {provider \in {"google", "anthropic", "openai", "ollama"} :
        _has_api_key(provider)}

\* One question of a chat session, in the terminal or in the GUI: the body
\* of the try block both front ends share.
ChatTurn(op, embedFails, chain) ==
    LET q == [NoQuery EXCEPT !.op = op, !.k = 5, !.chain = chain,
                             !.count = Cardinality(collection)]
    IN
    /\ store.constructed
    /\ store.vectorstore
    /\ IF embedFails
       THEN /\ lastQuery' = [q EXCEPT !.value = "caught",
                                      !.shown = ChatShowsException]
            /\ UNCHANGED mmVars
       ELSE \E documents \in similarity_search(collection, 5) :
              IF documents = <<>>
              THEN /\ lastQuery' =
                        [q EXCEPT !.value = "return",
                                  !.shown = [NoShown EXCEPT !.message =
                                      "No relevant documents found."]]
                   /\ UNCHANGED mmVars
              ELSE /\ get_llm_client
                   /\ IF lastRet'.value = "raise"
                      THEN lastQuery' = [q EXCEPT !.value = "caught",
                                                  !.documents = documents,
                                                  !.shown = ChatShowsException]
                      ELSE \E order \in ListOfSet(Sources(documents)) :
                             LET result ==
                                   AnswerQuestion(documents, chain, order)
                             IN lastQuery' =
                                  [q EXCEPT !.value = "return",
                                            !.documents = documents,
                                            !.answered = TRUE,
                                            !.answer = result.answer,
                                            !.sources = result.sources,
                                            !.documents_used =
                                                result.documents_used,
                                            !.error = result.error,
                                            !.client =
                                              <<lastRet'.client.llm_provider,
                                                lastRet'.client.llm_model>>,
                                            !.shown = ChatShows(result)]
    /\ UNCHANGED <<ingVars, environ, store, lastProcess, cfgVars, guiVars>>

\* sage chat: one question typed at the prompt.
chat(embedFails, chain) == ChatTurn("chat", embedFails, chain)

\* SageGUI._send_chat_message with a non-empty entry.
_send_chat_message(embedFails, chain) ==
    /\ current_provider \in get_configured_providers
    /\ ChatTurn("_send_chat_message", embedFails, chain)

-----------------------------------------------------------------------------
(* sage/config.py ConfigManager; its callers in sage/setup_gui.py and *)
(* sage/gui_app.py                                                     *)

\* ConfigManager.load(), its result kept in lastCommand.loaded.
ConfigManager_load ==
    /\ lastCommand' =
          IF ~exists
          THEN [NoCommand EXCEPT !.op = "load", !.value = "None",
                                 !.saved = lastCommand.saved]
          ELSE [NoCommand EXCEPT !.op = "load", !.value = "config",
                                 !.loaded = LoadedConfig(config_file.data,
                                                         Parts(ProjectPath)),
                                 !.saved = lastCommand.saved]
    /\ UNCHANGED <<mmVars, ingVars, qVars, config_file, guiVars>>

\* ConfigManager.save(c): the truth test of api_key raises before the file is
\* opened for writing.
ConfigManager_save(c) ==
    IF SaveRaises(c)
    THEN /\ lastCommand' = [NoCommand EXCEPT !.op = "save", !.value = "raise",
                                             !.saved = lastCommand.saved]
         /\ UNCHANGED config_file
    ELSE /\ config_file' = [exists |-> TRUE, data |-> SavedData(c)]
         /\ lastCommand' = [NoCommand EXCEPT !.op = "save", !.value = "None",
                                             !.saved = c]

\* SetupWindow._on_initialize, in the process of sage setup: the
\* configuration the window built is saved.
_on_initialize(c) ==
    /\ ConfigManager_save(c)
    /\ UNCHANGED <<mmVars, ingVars, qVars, guiVars>>

\* updated_config with the keys entered in the settings window.
WithKeys(c, new_keys) ==
    [c EXCEPT
        !.google_api_key =
            IF "google" \in DOMAIN new_keys THEN new_keys["google"] ELSE @,
        !.anthropic_api_key =
            IF "anthropic" \in DOMAIN new_keys THEN new_keys["anthropic"] ELSE @,
        !.openai_api_key =
            IF "openai" \in DOMAIN new_keys THEN new_keys["openai"] ELSE @]

\* SageGUI._save_api_keys with new keys entered: a deep copy of self.config
\* gets the keys and is saved, then becomes self.config, and a new
\* ModelManager is built on it. An exception (no configuration, or save
\* raising) ends the handler in its except clause, before self.config is
\* replaced.
_save_api_keys(new_keys) ==
    LET updated_config == WithKeys(config, new_keys)
        pair == GetChatProviderModel(updated_config)
    IN
    IF config = NoConfig
    THEN UNCHANGED vars
    ELSE /\ ConfigManager_save(updated_config)
         /\ IF SaveRaises(updated_config)
            THEN UNCHANGED mmVars
            ELSE /\ config' = updated_config
                 /\ current_provider' = pair[1]
                 /\ current_model' = pair[2]
                 /\ active_clients' = [k \in {} |-> 0]
                 /\ lastOp' = "init"
                 /\ lastArgs' = <<>>
                 /\ lastRet' = Ret("None", NoClient, FALSE)
                 /\ streak' = 0
                 /\ reuse' = NoReuse
                 /\ UNCHANGED <<HAS_OLLAMA, nConstructed>>
         /\ UNCHANGED <<ingVars, qVars, guiVars>>

\* get_configured_providers() raises where _has_api_key comes to test the
\* truth of an api_key that holds None: for the legacy provider, when it has
\* no dedicated key.
ConfiguredProvidersRaises ==
    /\ config.api_key = None
    /\ \/ config.llm_provider = "google" /\ ~Truthy(config.google_api_key)
       \/ config.llm_provider = "anthropic" /\ ~Truthy(config.anthropic_api_key)
       \/ config.llm_provider = "openai" /\ ~Truthy(config.openai_api_key)

\* SageGUI._on_chat_model_change(model), with the provider the provider menu
\* shows: the main-thread handler of the model menu.
_on_chat_model_change(provider, model) ==
    /\ config # NoConfig
    /\ ~ConfiguredProvidersRaises
    /\ provider \in get_configured_providers
    /\ switch_model(provider, model)

-----------------------------------------------------------------------------
(* sage/gui_app.py: the worker threads of the GUI *)

NoChatThread ==
    [pc |-> "idle", documents |-> <<>>, client |-> <<None, None>>,
     answer |-> None, sources |-> <<>>, provider_read |-> None]

\* One ingestion thread: update_thread of _update_index or reindex_thread of
\* _reindex_single_file. pc is the call it makes next, queue the files it
\* still has to process (the first being the current one), documents the
\* chunks of the current file, md the dict load_metadata returned to
\* update_metadata, processed the files whose update_metadata returned.
Worker(kind, force, pc, queue, batch) ==
    [kind |-> kind, force |-> force, pc |-> pc, queue |-> queue,
     documents |-> <<>>, md |-> <<>>, processed |-> {}, batch |-> batch]

\* The thread is done with its current file, with or without an exception:
\* the loop of update_thread goes on, reindex_thread ends.
NextFile(w) ==
    LET rest == Tail(w.queue) IN
    [w EXCEPT !.queue = rest, !.documents = <<>>, !.md = <<>>,
              !.pc = IF rest = <<>> THEN "done" ELSE "process_file"]

\* SageGUI._update_index(force), on the main thread: the Update Index and
\* Force Reindex buttons. It starts update_thread and returns.
_update_index(force) ==
    /\ Len(workers) < MaxWorkers
    /\ config # NoConfig
    /\ nRuns' = nRuns + 1
    /\ workers' = Append(workers,
                         Worker("update", force, "find_files", <<>>, nRuns + 1))
    /\ UNCHANGED <<files, metadata, collection, nEdits, lastRun, mmVars, qVars,
                   cfgVars, chat_thread, conversation_history>>

\* SageGUI._reindex_single_file(file_path), on the main thread, for a file of
\* the files view: it starts reindex_thread and returns.
_reindex_single_file_start(path) ==
    /\ Len(workers) < MaxWorkers
    /\ config # NoConfig
    /\ path \in DOMAIN metadata
    /\ path \in DOMAIN files
    /\ nRuns' = nRuns + 1
    /\ workers' = Append(workers,
                         Worker("reindex", FALSE, "process_file", <<path>>,
                                nRuns + 1))
    /\ UNCHANGED <<files, metadata, collection, nEdits, lastRun, mmVars, qVars,
                   cfgVars, chat_thread, conversation_history>>

\* update_thread: files_to_process = find_files(project_path, force), and the
\* return when there is none.
update_thread_find_files(i) ==
    LET w == workers[i]
        files_to_process == find_files(w.force)
    IN
    /\ w.pc = "find_files"
    /\ workers' =
         [workers EXCEPT ![i] =
             IF files_to_process = <<>>
             THEN [w EXCEPT !.pc = "done"]
             ELSE [w EXCEPT !.queue = files_to_process,
                            !.pc = IF w.force THEN "clear" ELSE "process_file"]]
    /\ UNCHANGED <<ingVars, mmVars, qVars, cfgVars, chat_thread,
                   conversation_history>>

\* update_thread: if force: self.vector_store.clear()
update_thread_clear(i) ==
    LET w == workers[i] IN
    /\ w.pc = "clear"
    /\ collection' = clear(collection)
    /\ workers' = [workers EXCEPT ![i] = [w EXCEPT !.pc = "process_file"]]
    /\ UNCHANGED <<files, metadata, nRuns, nEdits, lastRun, mmVars, qVars,
                   cfgVars, chat_thread, conversation_history>>

\* Either thread: documents = process_file(file_path); if documents: ...
thread_process_file(i) ==
    LET w == workers[i]
        documents == process_file(Head(w.queue), w.batch)
    IN
    /\ w.pc = "process_file"
    /\ workers' =
         [workers EXCEPT ![i] =
             IF documents = <<>>
             THEN NextFile(w)
             ELSE [w EXCEPT !.documents = documents, !.pc = "add_documents"]]
    /\ UNCHANGED <<ingVars, mmVars, qVars, cfgVars, chat_thread,
                   conversation_history>>

\* Either thread: self.vector_store.add_documents(documents); embedFails is
\* the embedding provider failing, an exception that ends the file.
thread_add_documents(i, embedFails) ==
    LET w == workers[i] IN
    /\ w.pc = "add_documents"
    /\ IF embedFails
       THEN /\ workers' = [workers EXCEPT ![i] = NextFile(w)]
            /\ UNCHANGED collection
       ELSE /\ collection' = add_documents(collection, w.documents)
            /\ workers' = [workers EXCEPT ![i] = [w EXCEPT !.pc = "load_metadata"]]
    /\ UNCHANGED <<files, metadata, nRuns, nEdits, lastRun, mmVars, qVars,
                   cfgVars, chat_thread, conversation_history>>

\* update_metadata, first statement: metadata = self.load_metadata(project_path)
thread_load_metadata(i) ==
    LET w == workers[i] IN
    /\ w.pc = "load_metadata"
    /\ workers' = [workers EXCEPT ![i] = [w EXCEPT !.md = metadata,
                                                   !.pc = "save_metadata"]]
    /\ UNCHANGED <<ingVars, mmVars, qVars, cfgVars, chat_thread,
                   conversation_history>>

\* update_metadata, the rest: the file's record is set in the loaded dict,
\* and save_metadata writes the dict over the cache.
thread_save_metadata(i) ==
    LET w == workers[i]
        file_path == Head(w.queue)
    IN
    /\ w.pc = "save_metadata"
    /\ metadata' = update_metadata(w.md, file_path, w.documents, w.batch)
    /\ workers' = [workers EXCEPT ![i] =
                      [NextFile(w) EXCEPT !.processed = @ \cup {file_path}]]
    /\ UNCHANGED <<files, collection, nRuns, nEdits, lastRun, mmVars, qVars,
                   cfgVars, chat_thread, conversation_history>>

\* SageGUI._send_chat_message, on the main thread, with a message typed:
\* after the test that the current provider is configured it starts
\* chat_thread and returns. One request is in flight at a time.
_send_chat_message_start ==
    /\ chat_thread.pc = "idle"
    /\ Len(conversation_history) < MaxHistory
    /\ config # NoConfig
    /\ ~ConfiguredProvidersRaises
    /\ current_provider \in get_configured_providers
    /\ chat_thread' = [NoChatThread EXCEPT !.pc = "search"]
    /\ UNCHANGED <<mmVars, ingVars, qVars, cfgVars, workers,
                   conversation_history>>

\* chat_thread: documents = self.vector_store.search(message, k=5); an
\* exception, or no document, ends the thread.
chat_thread_search(embedFails) ==
    /\ chat_thread.pc = "search"
    /\ IF embedFails
       THEN chat_thread' = NoChatThread
       ELSE \E documents \in similarity_search(collection, 5) :
              chat_thread' =
                  IF documents = <<>>
                  THEN NoChatThread
                  ELSE [chat_thread EXCEPT !.documents = documents,
                                           !.pc = "get_llm_client"]
    /\ UNCHANGED <<mmVars, ingVars, qVars, cfgVars, workers,
                   conversation_history>>

\* chat_thread: llm_client = self.model_manager.get_llm_client()
chat_thread_get_llm_client ==
    /\ chat_thread.pc = "get_llm_client"
    /\ get_llm_client
    /\ chat_thread' =
          IF lastRet'.value = "raise"
          THEN NoChatThread
          ELSE [chat_thread EXCEPT !.client = <<lastRet'.client.llm_provider,
                                                lastRet'.client.llm_model>>,
                                   !.pc = "answer_question"]
    /\ UNCHANGED <<ingVars, qVars, cfgVars, workers, conversation_history>>

\* chat_thread: result = llm_client.answer_question(message, documents); a
\* result with the error flag is shown and not recorded.
chat_thread_answer_question(chain) ==
    /\ chat_thread.pc = "answer_question"
    /\ \E order \in ListOfSet(Sources(chat_thread.documents)) :
         LET result == AnswerQuestion(chat_thread.documents, chain, order) IN
         chat_thread' =
             IF result.error
             THEN NoChatThread
             ELSE [chat_thread EXCEPT !.answer = result.answer,
                                      !.sources = result.sources,
                                      !.pc = "get_current_model_info"]
    /\ UNCHANGED <<mmVars, ingVars, qVars, cfgVars, workers,
                   conversation_history>>

\* chat_thread, building the entry's 'model': the first of the two calls of
\* get_current_model_info(), of which the provider is taken.
chat_thread_get_current_model_info ==
    /\ chat_thread.pc = "get_current_model_info"
    /\ chat_thread' = [chat_thread EXCEPT
                          !.provider_read = get_current_model_info[1],
                          !.pc = "append"]
    /\ UNCHANGED <<mmVars, ingVars, qVars, cfgVars, workers,
                   conversation_history>>

\* chat_thread: the second call, of which the model is taken, and
\* self.conversation_history.append(...). The entry's client is not in the
\* program's entry: it is the pair of the client that gave the answer.
chat_thread_append ==
    /\ chat_thread.pc = "append"
    /\ conversation_history' =
          Append(conversation_history,
                 [answer |-> chat_thread.answer,
                  sources |-> chat_thread.sources,
                  model |-> ClientKey(chat_thread.provider_read,
                                      get_current_model_info[2]),
                  client |-> chat_thread.client])
    /\ chat_thread' = NoChatThread
    /\ UNCHANGED <<mmVars, ingVars, qVars, cfgVars, workers>>

\* No GUI thread is running and nothing was asked yet.
GuiIdle ==
    /\ workers = <<>>
    /\ chat_thread = NoChatThread
    /\ conversation_history = <<>>

\* The configuration file is the one the session's configuration was loaded
\* from.
ConfigSaved ==
    /\ config_file = [exists |-> TRUE, data |-> SavedData(config)]
    /\ lastCommand = NoCommand

-----------------------------------------------------------------------------
(* Inputs of the chat-model session *)

\* What a front end passes to switch_model: /switch <provider> <model> of the
\* chat command, or a pick from the GUI's menus.
SwitchProviders == {"google", "ollama", "azure"}
SwitchModels == {"gemini-1.5-pro", "llama3.1:8b", "my-model"}

LegacyPairs == {<<"google", "gemini-1.5-flash">>,
                <<"anthropic", "claude-3-haiku-20240307">>}

\* The dedicated pairs of a configuration file: absent, present, half present.
IndexPairs == {<<None, None>>, <<"openai", "gpt-4o">>, <<"openai", None>>}
ChatPairs == {<<None, None>>, <<"ollama", "llama3.1:8b">>, <<"ollama", None>>}

\* Configurations as ConfigManager.load() returns them: the runtime override
\* is never persisted, any of the dedicated fields may be absent.
InitConfigs ==
    {[project_path |-> Parts(ProjectPath),
      llm_provider |-> legacy[1],
      llm_model |-> legacy[2],
      api_key |-> "k0",
      index_provider |-> index[1],
      index_model |-> index[2],
      chat_provider |-> chatPair[1],
      chat_model |-> chatPair[2],
      google_api_key |-> gk,
      anthropic_api_key |-> None,
      openai_api_key |-> None,
      current_chat_provider |-> None,
      current_chat_model |-> None] :
        legacy \in LegacyPairs,
        index \in IndexPairs, chatPair \in ChatPairs, gk \in {None, "kg"}}

\* The chunks one ingestion of a source with n chunks leaves in the collection.
StoredChunks(source, n, batch) ==
    {[source |-> source, text |-> n, chunk_index |-> i - 1, total_chunks |-> n,
      batch |-> batch, context_prefix |-> ChunkPrefix(source, None, i),
      folder_context |-> FolderContext(source, None)] : i \in 1..n}

\* A project after its first update: plan.txt gave two chunks, memo.md one.
IndexedTree == [p \in Paths |-> IF p = "/proj/plan.txt" THEN 2 ELSE 1]

IndexedSources == {"/proj/plan.txt", "/proj/docs/memo.md"}

IndexedCollection ==
    UNION {StoredChunks(p, IndexedTree[p], 1) : p \in IndexedSources}

IndexedMetadata ==
    [p \in IndexedSources |->
        [hash |-> get_file_hash(IndexedTree[p]), processed_at |-> 1,
         chunk_count |-> IndexedTree[p]]]

\* No ingestion is running: the project is as its first update left it.
IngestIdle ==
    /\ files = IndexedTree
    /\ metadata = IndexedMetadata
    /\ collection = IndexedCollection
    /\ nRuns = 1
    /\ nEdits = 0
    /\ lastRun = NoRun

\* The environment of a session that started: OPENAI_API_KEY is exported.
SessionEnviron ==
    [OPENAI_API_KEY |-> "ke", HAS_HUGGINGFACE |-> FALSE,
     OllamaEmbeddingsRaises |-> FALSE]

\* VectorStore(config) followed by initialize(), as every front end does at
\* its start.
StoreOpened ==
    /\ environ = SessionEnviron
    /\ store = [constructed |-> TRUE,
                embeddings |->
                    _get_embeddings(config, environ, HAS_OLLAMA).embeddings,
                vectorstore |-> TRUE]
    /\ lastQuery = NoQuery
    /\ lastProcess = NoProcess

\* A session: the configuration as loaded, then ModelManager(config).
Init ==
    /\ config \in InitConfigs
    /\ HAS_OLLAMA \in BOOLEAN
    /\ current_provider = GetChatProviderModel(config)[1]
    /\ current_model = GetChatProviderModel(config)[2]
    /\ active_clients = [k \in {} |-> 0]
    /\ nConstructed = 0
    /\ lastOp = "init"
    /\ lastArgs = <<>>
    /\ lastRet = Ret("None", NoClient, FALSE)
    /\ streak = 0
    /\ reuse = NoReuse
    /\ IngestIdle
    /\ StoreOpened
    /\ ConfigSaved
    /\ GuiIdle

Next ==
    \/ ModelManagerInit
    \/ \E provider \in SwitchProviders, model \in SwitchModels :
           switch_model(provider, model)
    \/ (get_llm_client /\ UNCHANGED <<ingVars, qVars, cfgVars, guiVars>>)

Spec == Init /\ [][Next]_vars

-----------------------------------------------------------------------------
(* Inputs of the ingestion pipeline *)

Contents == 0..MaxContent

\* SageConfig's defaults
DefaultConfig ==
    [project_path |-> Parts(ProjectPath),
     llm_provider |-> "google", llm_model |-> "gemini-1.5-flash",
     api_key |-> "k0", index_provider |-> None, index_model |-> None,
     chat_provider |-> None, chat_model |-> None, google_api_key |-> None,
     anthropic_api_key |-> None, openai_api_key |-> None,
     current_chat_provider |-> None, current_chat_model |-> None]

SessionIdle ==
    /\ config = DefaultConfig
    /\ HAS_OLLAMA = FALSE
    /\ current_provider = GetChatProviderModel(config)[1]
    /\ current_model = GetChatProviderModel(config)[2]
    /\ active_clients = [k \in {} |-> 0]
    /\ nConstructed = 0
    /\ lastOp = "init"
    /\ lastArgs = <<>>
    /\ lastRet = Ret("None", NoClient, FALSE)
    /\ streak = 0
    /\ reuse = NoReuse

\* The project trees a run starts from: every file has text, except that
\* plan.txt may be a file with nothing to extract.
InitTrees ==
    {[p \in Paths |-> IF p = "/proj/plan.txt" THEN c ELSE 1] : c \in 0..1}

\* The files the user edits between runs: one that find_files scans and one
\* it passes over.
EditedPaths == {"/proj/plan.txt", "/proj/docs/notes.sage.md"}

\* A project that was set up and never indexed: no metadata cache, an empty
\* collection, every file of the tree with some content.
InitIngest ==
    /\ files \in InitTrees
    /\ metadata = <<>>
    /\ collection = {}
    /\ nRuns = 0
    /\ nEdits = 0
    /\ lastRun = NoRun
    /\ SessionIdle
    /\ StoreOpened
    /\ ConfigSaved
    /\ GuiIdle

NextIngest ==
    \/ \E force \in BOOLEAN :
          \E faults \in FaultPlans(find_files(force)) : update(force, faults)
    \/ \E path \in DOMAIN metadata :
          \E faults \in FaultPlans(<<path>>) : _reindex_single_file(path, faults)
    \/ \E path \in EditedPaths, content \in Contents : EditFile(path, content)

SpecIngest == InitIngest /\ [][NextIngest]_vars

-----------------------------------------------------------------------------
(* Inputs of process_file *)

\* project_path as passed: omitted, the project's root, another directory.
ProjectPathArgs == {None, ProjectPath, "/elsewhere"}

InitProcess ==
    /\ SessionIdle
    /\ IngestIdle
    /\ StoreOpened
    /\ ConfigSaved
    /\ GuiIdle

NextProcess ==
    \E ext \in SUPPORTED_EXTENSIONS, project_path \in ProjectPathArgs,
       first \in Outcomes, ocr \in Outcomes :
        process_file_call(ext, project_path, first, ocr)

SpecProcess == InitProcess /\ [][NextProcess]_vars

-----------------------------------------------------------------------------
(* Inputs of _extract_folder_context *)

\* Folder names of a project tree: two known phases, other folders.
FolderNames == {"01.Origination&Dev", "03.Operation", "ACES", "Meetings"}

\* The folder chains of files up to MaxDepth levels below the root.
FolderChains == UNION {[1..n -> FolderNames] : n \in 0..MaxDepth}

\* The files _extract_folder_context is called for: report.pdf in a folder
\* chain below /proj.
FilePathArgs ==
    {PathStr(<<"/", "proj">> \o chain \o <<"report.pdf">>) : chain \in FolderChains}

\* The project roots it is called with: the root of these files, a folder of
\* theirs, a directory they are not under, one whose name is a prefix of the
\* root's name.
ProjectRootArgs == {ProjectPath, "/proj/01.Origination&Dev", "/elsewhere", "/pro"}

\* The arguments of one call, drawn and not yet passed.
InitContext ==
    /\ SessionIdle
    /\ IngestIdle
    /\ environ = SessionEnviron
    /\ store = [constructed |-> TRUE,
                embeddings |->
                    _get_embeddings(config, environ, HAS_OLLAMA).embeddings,
                vectorstore |-> TRUE]
    /\ lastQuery = NoQuery
    /\ \E file_path \in FilePathArgs, project_path \in ProjectRootArgs :
          lastProcess = [NoProcess EXCEPT !.file_path = file_path,
                                          !.project_path = project_path]
    /\ ConfigSaved
    /\ GuiIdle

NextContext == _extract_folder_context_call

SpecContext == InitContext /\ [][NextContext]_vars

-----------------------------------------------------------------------------
(* Inputs of the embedding resolver *)

\* The key a user enters for a provider in the setup window.
KeyOf == [google |-> "kg", anthropic |-> "ka", openai |-> "ko"]

IndexChoices == {<<"google", "gemini-1.5-flash">>,
                 <<"anthropic", "claude-3-haiku-20240307">>,
                 <<"openai", "gpt-4o">>,
                 <<"ollama", "llama3.1:8b">>}

ChatChoices == {<<"google", "gemini-1.5-pro">>, <<"ollama", "llama3.1:8b">>}

\* The providers of a setup for which a key is asked.
KeyedProviders(index, chatPair) == {index[1], chatPair[1]} \ {"ollama"}

\* SetupWindow._on_initialize: the legacy pair is the index pair, and the
\* legacy api_key is "the first provided API key", the first value of a dict
\* filled by iterating over the set {index provider, chatPair provider}.
SetupConfigs ==
    {[project_path |-> Parts(ProjectPath),
      llm_provider |-> index[1],
      llm_model |-> index[2],
      api_key |-> primary_key,
      index_provider |-> index[1],
      index_model |-> index[2],
      chat_provider |-> chatPair[1],
      chat_model |-> chatPair[2],
      google_api_key |->
          IF "google" \in KeyedProviders(index, chatPair) THEN KeyOf.google ELSE None,
      anthropic_api_key |->
          IF "anthropic" \in KeyedProviders(index, chatPair) THEN KeyOf.anthropic
          ELSE None,
      openai_api_key |->
          IF "openai" \in KeyedProviders(index, chatPair) THEN KeyOf.openai ELSE None,
      current_chat_provider |-> None,
      current_chat_model |-> None] :
        index \in IndexChoices, chatPair \in ChatChoices,
        primary_key \in {"kg", "ka", "ko", "not-required"}}

\* Of these, the configurations the setup window can write.
WrittenBySetup(c) ==
    LET keyed == KeyedProviders(<<c.index_provider, c.index_model>>,
                                <<c.chat_provider, c.chat_model>>)
    IN IF keyed = {}
       THEN c.api_key = "not-required"
       ELSE \E provider \in keyed : c.api_key = KeyOf[provider]

\* Configuration files from before the index/chat split, or written by hand:
\* only the legacy pair, with or without an OpenAI key beside it.
LegacyConfigs ==
    {[DefaultConfig EXCEPT !.llm_provider = legacy[1], !.llm_model = legacy[2],
                           !.openai_api_key = ok] :
        legacy \in IndexChoices \cup {<<"azure", "gpt-4o">>},
        ok \in {None, "ko"}}

EmbedConfigs ==
    {c \in SetupConfigs : WrittenBySetup(c)} \cup LegacyConfigs \cup InitConfigs

Environs ==
    [OPENAI_API_KEY : {None, "ke"}, HAS_HUGGINGFACE : BOOLEAN,
     OllamaEmbeddingsRaises : BOOLEAN]

\* ModelManager(config) was just constructed.
ManagerFresh ==
    /\ current_provider = GetChatProviderModel(config)[1]
    /\ current_model = GetChatProviderModel(config)[2]
    /\ active_clients = [k \in {} |-> 0]
    /\ nConstructed = 0
    /\ lastOp = "init"
    /\ lastArgs = <<>>
    /\ lastRet = Ret("None", NoClient, FALSE)
    /\ streak = 0
    /\ reuse = NoReuse

InitEmbed ==
    /\ config \in EmbedConfigs
    /\ HAS_OLLAMA \in BOOLEAN
    /\ environ \in Environs
    /\ ManagerFresh
    /\ IngestIdle
    /\ store = NoStore
    /\ lastQuery = NoQuery
    /\ lastProcess = NoProcess
    /\ ConfigSaved
    /\ GuiIdle

NextEmbed == VectorStoreInit

SpecEmbed == InitEmbed /\ [][NextEmbed]_vars

-----------------------------------------------------------------------------
(* Inputs of the store and the query front ends *)

QueryConfigs ==
    {DefaultConfig,
     [DefaultConfig EXCEPT !.chat_provider = "ollama",
                           !.chat_model = "llama3.1:8b"]}

\* The chunk lists add_documents is called with: none, or one file's chunks.
AddedDocuments ==
    {<<>>} \cup {process_file(p, 1) : p \in IndexedSources}

\* The chunk lists answer_question is called with: retrieved chunks.
DocumentLists ==
    UNION {Arrangements(IndexedCollection, n) : n \in 0..MaxDocs}

\* The project was set up; it was never indexed, or indexed once.
InitStore ==
    /\ config \in QueryConfigs
    /\ HAS_OLLAMA \in BOOLEAN
    /\ ManagerFresh
    /\ files = IndexedTree
    /\ \/ (metadata = <<>> /\ collection = {} /\ nRuns = 0)
       \/ (metadata = IndexedMetadata /\ collection = IndexedCollection
             /\ nRuns = 1)
    /\ nEdits = 0
    /\ lastRun = NoRun
    /\ environ = SessionEnviron
    /\ store = NoStore
    /\ lastQuery = NoQuery
    /\ lastProcess = NoProcess
    /\ ConfigSaved
    /\ GuiIdle

NextStore ==
    \/ VectorStoreInit
    \/ VectorStore_initialize
    \/ \E documents \in AddedDocuments, embedFails \in BOOLEAN :
           VectorStore_add_documents(documents, embedFails)
    \/ VectorStore_clear
    \/ \E k \in 1..MaxK, embedFails \in BOOLEAN : VectorStore_search(k, embedFails)
    \/ VectorStore_get_document_count
    \/ \E documents \in DocumentLists, chain \in ChainOutcomes :
           answer_question(documents, chain)
    \/ \E embedFails \in BOOLEAN, chain \in ChainOutcomes : ask(embedFails, chain)
    \/ \E embedFails \in BOOLEAN, chain \in ChainOutcomes : chat(embedFails, chain)
    \/ \E embedFails \in BOOLEAN, chain \in ChainOutcomes :
           _send_chat_message(embedFails, chain)

SpecStore == InitStore /\ [][NextStore]_vars

-----------------------------------------------------------------------------
(* Inputs of the configuration file *)

\* What the setup window is made to build: a keyed pair, and Ollama alone.
SetupChoices ==
    {c \in SetupConfigs :
        /\ WrittenBySetup(c)
        /\ <<c.index_provider, c.chat_provider>> \in
               {<<"google", "google">>, <<"ollama", "ollama">>}}

\* A configuration file from before the setup window wrote the legacy
\* api_key, or written by hand: the provider, its model and its dedicated key.
HandWrittenFile ==
    [exists |-> TRUE,
     data |-> [llm_provider |-> "google", llm_model |-> "gemini-1.5-flash",
               google_api_key |-> "kg"]]

ConfigFiles ==
    {NoFile, HandWrittenFile}
        \cup {[exists |-> TRUE, data |-> SavedData(c)] : c \in SetupChoices}

\* The keys entered in the settings window.
NewKeys ==
    {[provider \in {"anthropic"} |-> "ka2"],
     [provider \in {"google", "openai"} |-> IF provider = "google" THEN "kg2"
                                            ELSE "ko2"]}

\* The models picked in the GUI's menus.
MenuPicks == {<<"google", "gemini-1.5-pro">>, <<"anthropic", "claude-3-haiku-20240307">>,
              <<"ollama", "llama3.1:8b">>}

\* A GUI that started on the project: SageGUI.__init__ loaded the file, and
\* built the store and the manager when there was one.
InitConfig ==
    /\ config_file \in ConfigFiles
    /\ config = IF exists
                THEN LoadedConfig(config_file.data, Parts(ProjectPath))
                ELSE NoConfig
    /\ HAS_OLLAMA \in BOOLEAN
    /\ ManagerFresh
    /\ IngestIdle
    /\ environ = SessionEnviron
    /\ store = IF exists
               THEN [constructed |-> TRUE,
                     embeddings |->
                         _get_embeddings(config, environ, HAS_OLLAMA).embeddings,
                     vectorstore |-> TRUE]
               ELSE NoStore
    /\ lastQuery = NoQuery
    /\ lastProcess = NoProcess
    /\ lastCommand = NoCommand
    /\ GuiIdle

NextConfig ==
    \/ ConfigManager_load
    \/ \E c \in SetupChoices : _on_initialize(c)
    \/ \E new_keys \in NewKeys : _save_api_keys(new_keys)
    \/ \E pick \in MenuPicks : _on_chat_model_change(pick[1], pick[2])

SpecConfig == InitConfig /\ [][NextConfig]_vars

-----------------------------------------------------------------------------
(* Inputs of the commands on a project without configuration *)

\* A project directory in which sage setup was never run: no configuration
\* file, no metadata cache, no collection.
InitCli ==
    /\ config_file = NoFile
    /\ config = NoConfig
    /\ HAS_OLLAMA \in BOOLEAN
    /\ ManagerFresh
    /\ files \in InitTrees
    /\ metadata = [p \in {} |-> 0]
    /\ collection = {}
    /\ nRuns = 0
    /\ nEdits = 0
    /\ lastRun = NoRun
    /\ environ = SessionEnviron
    /\ store = NoStore
    /\ lastQuery = NoQuery
    /\ lastProcess = NoProcess
    /\ lastCommand = NoCommand
    /\ GuiIdle

\* The run in which nothing fails.
NoFaults(selected) == [p \in Range(selected) |-> "none"]

NextCli ==
    \/ status
    \/ \E embedFails \in BOOLEAN, chain \in ChainOutcomes : ask(embedFails, chain)
    \/ \E force \in BOOLEAN : update(force, NoFaults(find_files(force)))
    \/ \E c \in SetupChoices : _on_initialize(c)

SpecCli == InitCli /\ [][NextCli]_vars

-----------------------------------------------------------------------------
(* Inputs of the GUI's ingestion threads *)

\* The project as indexed before plan.txt was added to it.
IndexedBeforePlan ==
    /\ metadata = [p \in {"/proj/docs/memo.md"} |-> IndexedMetadata[p]]
    /\ collection = {chunk \in IndexedCollection :
                        chunk.source = "/proj/docs/memo.md"}

\* The GUI is open on an indexed project; no thread was started yet.
InitGuiIngest ==
    /\ SessionIdle
    /\ StoreOpened
    /\ ConfigSaved
    /\ files = IndexedTree
    /\ \/ IndexedBeforePlan
       \/ metadata = IndexedMetadata /\ collection = IndexedCollection
    /\ nRuns = 1
    /\ nEdits = 0
    /\ lastRun = NoRun
    /\ GuiIdle

NextGuiIngest ==
    \/ \E force \in BOOLEAN : _update_index(force)
    \/ \E path \in DOMAIN metadata : _reindex_single_file_start(path)
    \/ \E i \in DOMAIN workers : update_thread_find_files(i)
    \/ \E i \in DOMAIN workers : update_thread_clear(i)
    \/ \E i \in DOMAIN workers : thread_process_file(i)
    \/ \E i \in DOMAIN workers, embedFails \in BOOLEAN :
         thread_add_documents(i, embedFails)
    \/ \E i \in DOMAIN workers : thread_load_metadata(i)
    \/ \E i \in DOMAIN workers : thread_save_metadata(i)

SpecGuiIngest == InitGuiIngest /\ [][NextGuiIngest]_vars

-----------------------------------------------------------------------------
(* Inputs of the GUI chat *)

\* The models picked in the chat's menus while a request is in flight.
ChatMenuPicks == MenuPicks \cup {<<"google", "gemini-1.5-flash">>}

\* The GUI is open on an indexed project; nothing was asked yet.
InitGuiChat ==
    /\ config = DefaultConfig
    /\ HAS_OLLAMA \in BOOLEAN
    /\ ManagerFresh
    /\ files = IndexedTree
    /\ IndexedBeforePlan
    /\ nRuns = 1
    /\ nEdits = 0
    /\ lastRun = NoRun
    /\ StoreOpened
    /\ ConfigSaved
    /\ GuiIdle

NextGuiChat ==
    \/ _send_chat_message_start
    \/ \E embedFails \in BOOLEAN : chat_thread_search(embedFails)
    \/ chat_thread_get_llm_client
    \/ \E chain \in ChainOutcomes : chat_thread_answer_question(chain)
    \/ chat_thread_get_current_model_info
    \/ chat_thread_append
    \/ \E pick \in ChatMenuPicks : _on_chat_model_change(pick[1], pick[2])

SpecGuiChat == InitGuiChat /\ [][NextGuiChat]_vars

-----------------------------------------------------------------------------
(* Properties of the chat-model session *)

\* The target of a switch as the contract classifies it, in the state in
\* which switch_model is called.
TargetInvalid(provider, model) ==
    \/ provider \notin DOMAIN AVAILABLE_MODELS
    \/ (provider # "ollama" /\ model \notin AVAILABLE_MODELS[provider])
    \/ ~_has_api_key(provider)

TargetValid(provider, model) ==
    /\ provider \in DOMAIN AVAILABLE_MODELS
    /\ (provider = "ollama" \/ model \in AVAILABLE_MODELS[provider])
    /\ _has_api_key(provider)

\* C1: switch_model with an invalid target (unknown provider, model outside a
\* non-ollama provider's catalog, or no credential) returns False and leaves
\* the current model, the configuration's runtime override and the cached
\* clients exactly as they were, from any prior state.
C1_InvalidSwitchChangesNothing ==
    [][ (lastOp' = "switch_model" /\ TargetInvalid(lastArgs'[1], lastArgs'[2]))
          => /\ lastRet'.value = "False"
             /\ get_current_model_info' = get_current_model_info
             /\ config' = config
             /\ active_clients' = active_clients ]_vars

\* A refused switch (known provider, no credential) made from a session that
\* already switched successfully and holds a cached client.
C1_Witness ==
    /\ lastOp = "switch_model"
    /\ lastRet.value = "False"
    /\ lastArgs[1] \in DOMAIN AVAILABLE_MODELS
    /\ ~_has_api_key(lastArgs[1])
    /\ config.current_chat_provider # None
    /\ active_clients # <<>>

\* C2: switch_model with a valid target returns True, after which
\* get_current_model_info() and config.get_chat_provider_model() both equal
\* the target; and in every state of a session the two agree.
C2_ValidSwitchCommits ==
    /\ [](get_current_model_info = GetChatProviderModel(config))
    /\ [][ (lastOp' = "switch_model" /\ TargetValid(lastArgs'[1], lastArgs'[2]))
             => /\ lastRet'.value = "True"
                /\ get_current_model_info' = lastArgs'
                /\ GetChatProviderModel(config') = lastArgs' ]_vars

\* A successful switch to a pair other than the one the configuration
\* resolves to without the override.
C2_Witness ==
    /\ lastOp = "switch_model"
    /\ lastRet.value = "True"
    /\ get_current_model_info = lastArgs
    /\ lastArgs # <<config.llm_provider, config.llm_model>>
    /\ lastArgs # <<config.chat_provider, config.chat_model>>

\* C3: get_llm_client constructs a client only when none is cached under the
\* current selection's key, and a second call directly after a first returns
\* the same result without constructing anything.
C3_ClientBuiltOncePerKey ==
    [][ /\ (lastOp' = "get_llm_client" /\ nConstructed' # nConstructed)
            => /\ ClientKey(current_provider, current_model)
                     \notin DOMAIN active_clients
               /\ nConstructed' = nConstructed + 1
        /\ (lastOp' = "get_llm_client" /\ lastRet'.value = "client")
            => /\ lastRet'.constructed = (nConstructed' # nConstructed)
               /\ (ClientKey(current_provider, current_model)
                     \in DOMAIN active_clients
                   => lastRet'.client
                        = active_clients[ClientKey(current_provider, current_model)])
        /\ (lastOp = "get_llm_client" /\ lastOp' = "get_llm_client")
            => /\ lastRet'.value = lastRet.value
               /\ lastRet'.client = lastRet.client
               /\ nConstructed' = nConstructed ]_vars

\* Two calls in a row: the first built the client, the second returned it.
C3_Witness ==
    /\ lastOp = "get_llm_client"
    /\ streak = 2
    /\ lastRet.value = "client"
    /\ ~lastRet.constructed
    /\ nConstructed = 1

\* C4 as stated: after get under A, a switch to B and a switch back to A,
\* get_llm_client returns the client built for A before, constructing none.
C4_ClientReusedAfterSwitchBack ==
    reuse.stage = 4 => (lastRet.client.id = reuse.client /\ ~lastRet.constructed)

\* C4 amended: switch_model(A) discards the client cached under A's key, so
\* after get under A, a switch to B and a switch back to A, get_llm_client
\* constructs and returns a new client for A, not the one built before; right
\* after any successful switch no client is cached under the target's key.
C4_SwitchBackRebuildsClient ==
    /\ reuse.stage = 4
         => /\ lastRet.constructed
            /\ lastRet.client.id # reuse.client
            /\ lastRet.client.llm_provider = reuse.provider
            /\ lastRet.client.llm_model = reuse.model
    /\ (lastOp = "switch_model" /\ lastRet.value = "True")
         => ClientKey(lastArgs[1], lastArgs[2]) \notin DOMAIN active_clients

\* The scenario ran to its last call.
C4_Witness ==
    /\ reuse.stage = 4
    /\ lastOp = "get_llm_client"
    /\ lastRet.value = "client"

\* C5: switch_model(P, M), succeeding or failing, keeps every cache entry
\* whose key differs from "P:M": still present, same client.
C5_SwitchKeepsOtherKeys ==
    [][ lastOp' = "switch_model"
          => \A k \in DOMAIN active_clients :
                k # ClientKey(lastArgs'[1], lastArgs'[2])
                  => (k \in DOMAIN active_clients'
                        /\ active_clients'[k] = active_clients[k]) ]_vars

\* A successful switch after which a client for another key is still cached.
C5_Witness ==
    /\ lastOp = "switch_model"
    /\ lastRet.value = "True"
    /\ \E k \in DOMAIN active_clients :
          /\ k # ClientKey(lastArgs[1], lastArgs[2])
          /\ active_clients[k].id >= 1

PairSet(provider, model) == provider # None /\ model # None

PriorityChain(c) ==
    IF PairSet(c.current_chat_provider, c.current_chat_model)
    THEN <<c.current_chat_provider, c.current_chat_model>>
    ELSE IF PairSet(c.chat_provider, c.chat_model)
    THEN <<c.chat_provider, c.chat_model>>
    ELSE <<c.llm_provider, c.llm_model>>

\* C6: the chat pair is the runtime override if set, else the configured chat
\* pair if set, else the legacy pair; a new ModelManager starts with exactly
\* that pair as its current model.
C6_ChatPriorityChain ==
    /\ GetChatProviderModel(config) = PriorityChain(config)
    /\ lastOp = "init" => get_current_model_info = PriorityChain(config)

\* A manager constructed over a configuration that has both a runtime
\* override and a configured chat pair, which differ.
C6_Witness ==
    /\ lastOp = "init"
    /\ PairSet(config.current_chat_provider, config.current_chat_model)
    /\ PairSet(config.chat_provider, config.chat_model)
    /\ config.current_chat_provider # config.chat_provider
    /\ get_current_model_info
         = <<config.current_chat_provider, config.current_chat_model>>

\* C7: with index_provider, index_model, chat_provider, chat_model and the
\* runtime override all unset, get_index_provider_model() and
\* get_chat_provider_model() both return the legacy (llm_provider, llm_model).
C7_LegacyFallback ==
    ( /\ config.index_provider = None /\ config.index_model = None
      /\ config.chat_provider = None /\ config.chat_model = None
      /\ config.current_chat_provider = None /\ config.current_chat_model = None )
    => /\ GetIndexProviderModel(config) = <<config.llm_provider, config.llm_model>>
       /\ GetChatProviderModel(config) = <<config.llm_provider, config.llm_model>>

\* A legacy-only configuration for which a client was built.
C7_Witness ==
    /\ config.index_provider = None /\ config.index_model = None
    /\ config.chat_provider = None /\ config.chat_model = None
    /\ config.current_chat_provider = None /\ config.current_chat_model = None
    /\ config.llm_provider = "anthropic"
    /\ lastOp = "get_llm_client"
    /\ lastRet.client.llm_provider = config.llm_provider
    /\ lastRet.client.llm_model = config.llm_model

\* The fields of the shared configuration that indexing reads.
IndexingFields(c) ==
    <<c.index_provider, c.index_model, c.llm_provider, c.llm_model, c.api_key>>

\* C17: switch_model and get_llm_client leave the configuration's
\* index_provider, index_model, legacy llm_provider/llm_model and api_key, the
\* store's embedding backend and the stored collection as they were; in every
\* state of a session the store's backend is the one the configuration
\* resolves to, so no switch calls for re-embedding.
C17_SwitchLeavesIndexingAlone ==
    /\ [](store.embeddings
            = _get_embeddings(config, environ, HAS_OLLAMA).embeddings)
    /\ [][ lastOp' \in {"switch_model", "get_llm_client"}
             => /\ IndexingFields(config') = IndexingFields(config)
                /\ GetIndexProviderModel(config') = GetIndexProviderModel(config)
                /\ store' = store
                /\ collection' = collection
                /\ metadata' = metadata ]_vars

\* A client was built after a successful switch away from the legacy
\* provider, over a collection that holds chunks.
C17_Witness ==
    /\ lastOp = "get_llm_client"
    /\ lastRet.constructed
    /\ config.current_chat_provider # None
    /\ config.current_chat_provider # config.llm_provider
    /\ lastRet.client.llm_provider = config.current_chat_provider
    /\ collection # {}
    /\ store.vectorstore

-----------------------------------------------------------------------------
(* Properties of the ingestion pipeline *)

\* The index's storage directory is <project>/.sage
InStorageDir(path) ==
    LET prefix == ProjectPath \o "/.sage/" IN
    Len(path) >= Len(prefix) /\ SubSeq(path, 1, Len(prefix)) = prefix

\* C8: for every supported file of the project tree outside the index's
\* storage directory, find_files(root, force) returns it if and only if force
\* is true, or the metadata cache has no record of it, or its current hash
\* differs from the recorded hash.
C8_FindFilesSelectsExactlyStaleFiles ==
    [][ lastRun'.op = "update"
          => \A path \in DOMAIN files :
                (MatchesSupportedExtension(path) /\ ~InStorageDir(path))
                  => ( path \in Range(lastRun'.selected)
                       <=> \/ lastRun'.force
                           \/ path \notin DOMAIN metadata
                           \/ metadata[path].hash # get_file_hash(files[path]) )
      ]_vars

\* C9: an update without force that directly follows an update without force
\* (no file changed in between) selects no file; an update without force that
\* follows an update without force and then one edit of one file selects that
\* file and no other.
C9_IncrementalIdempotence ==
    [][ (lastRun'.op = "update" /\ ~lastRun'.force)
          => /\ (lastRun.op = "update" /\ ~lastRun.force)
                  => lastRun'.selected = <<>>
             /\ (lastRun.op = "edit" /\ lastRun.afterUpdate)
                  => lastRun'.selected = <<lastRun.file>> ]_vars

\* C10: after any ingestion run, the chunks the collection holds for a source
\* all come from one ingestion of it, the latest: none from an earlier
\* add_documents call remains.
C10_OnlyLatestChunksPerSource ==
    \A c1 \in collection, c2 \in collection :
        c1.source = c2.source => c1.batch = c2.batch

\* The run numbered batch stored chunks of path and wrote its metadata record.
Ingested(path, batch, coll, md) ==
    /\ \E c \in coll : c.source = path /\ c.batch = batch
    /\ path \in DOMAIN md
    /\ md[path].processed_at = batch

\* C11: in an update run every file find_files returned is attempted: each
\* selected file ends either stored with its metadata written by this run or
\* listed in failed_files, never both and never neither; only selected files
\* are listed, each once; and the run reaches its summary, whose count of
\* failed files is the length of that list.
C11_FailuresStayPerFile ==
    [][ lastRun'.op = "update"
          => /\ \A path \in Range(lastRun'.selected) :
                   Ingested(path, nRuns', collection', metadata')
                     <=> path \notin Range(lastRun'.failed)
             /\ Range(lastRun'.failed) \subseteq Range(lastRun'.selected)
             /\ Len(lastRun'.failed) = Cardinality(Range(lastRun'.failed))
             /\ \A path \in DOMAIN files :
                   path \notin Range(lastRun'.selected)
                     => ~Ingested(path, nRuns', collection', metadata') ]_vars

\* A run in which the first selected file failed and a later one was stored.
C11_Witness ==
    /\ lastRun.op = "update"
    /\ Len(lastRun.selected) = 2
    /\ lastRun.failed = <<lastRun.selected[1]>>
    /\ Ingested(lastRun.selected[2], nRuns, collection, metadata)
    /\ ~Ingested(lastRun.selected[1], nRuns, collection, metadata)

-----------------------------------------------------------------------------
(* Properties of process_file *)

\* The extraction of the call failed beyond recovery: the extraction call for
\* the extension raised and, for a PDF, OCR raised as well.
ExtractionFailed(call) ==
    IF call.ext = ".pdf"
    THEN call.first = "raise" /\ call.ocr = "raise"
    ELSE call.first = "raise"

\* C12: process_file never raises; when extraction fails beyond recovery, for
\* any supported extension, with or without a project_path, it returns the
\* empty list of chunks.
C12_ProcessFileFailureGivesNoChunks ==
    lastProcess.op = "process_file"
      => /\ lastProcess.value = "list"
         /\ ExtractionFailed(lastProcess) => lastProcess.documents = <<>>

-----------------------------------------------------------------------------
(* Properties of the store and the query pipeline *)

\* The states right after answer_question returned, called directly or by a
\* front end.
Answered == lastQuery.op = "answer_question" \/ lastQuery.answered

\* The answer text tells that generation failed and why.
DescribesFailure(answer) ==
    LET lead == "Error generating answer: " IN
    /\ Len(answer) > Len(lead)
    /\ SubSeq(answer, 1, Len(lead)) = lead
    /\ EndsWith(answer, ChainError)

\* C13: answer_question does not raise when the chain invocation fails: it
\* returns a result with the error flag set, an answer text describing the
\* failure, as sources the set of sources of the supplied chunks and as
\* documents_used their number; the error flag is set only when the
\* invocation failed.
C13_AnswerErrorPath ==
    Answered
      => /\ lastQuery.value # "raise"
         /\ lastQuery.error <=> (lastQuery.chain = "raise")
         /\ lastQuery.error
              => /\ DescribesFailure(lastQuery.answer)
                 /\ Range(lastQuery.sources) = Sources(lastQuery.documents)
                 /\ lastQuery.documents_used = Len(lastQuery.documents)

\* A failed invocation over three chunks of two sources.
C13_Witness ==
    /\ lastQuery.op = "answer_question"
    /\ lastQuery.chain = "raise"
    /\ lastQuery.error
    /\ Len(lastQuery.documents) = 3
    /\ Cardinality(Range(lastQuery.sources)) = 2

FrontEnds == {"ask", "chat", "_send_chat_message"}

\* C14: in cli ask, cli chat and the GUI chat, when generation fails after
\* retrieval succeeded, the user is shown a marked error message and the
\* sources of the retrieved chunks.
C14_SourcesShownOnGenerationError ==
    (lastQuery.op \in FrontEnds /\ lastQuery.answered /\ lastQuery.error)
      => /\ lastQuery.shown.error_marked
         /\ Range(lastQuery.shown.sources) = Sources(lastQuery.documents)

RECURSIVE Unique(_, _)
Unique(seq, seen) ==
    IF seq = <<>>
    THEN <<>>
    ELSE IF Head(seq) \in seen
    THEN Unique(Tail(seq), seen)
    ELSE <<Head(seq)>> \o Unique(Tail(seq), seen \cup {Head(seq)})

\* The sources of the chunks, each once, in order of first occurrence.
FirstOccurrences(documents) ==
    Unique([i \in 1..Len(documents) |-> documents[i].source], {})

\* C15: the sources list of answer_question holds each distinct source of the
\* supplied chunks exactly once and nothing else, in the order in which the
\* sources first occur in the chunks.
C15_SourcesInRetrievalOrder ==
    Answered => lastQuery.sources = FirstOccurrences(lastQuery.documents)

\* C19: after clear() returns, whether or not the store object was
\* initialized before, the collection holds no chunk (get_document_count()
\* would return 0).
C19_ClearEmptiesCollection ==
    lastQuery.op = "clear" => Cardinality(collection) = 0

\* C20: search on an empty collection returns the empty list and does not
\* raise; on a non-empty collection it returns at most k chunks.
C20_SearchOnEmptyCollection ==
    lastQuery.op = "search"
      => /\ collection = {}
              => (lastQuery.value = "list" /\ lastQuery.documents = <<>>)
         /\ lastQuery.value = "list" => Len(lastQuery.documents) <= lastQuery.k

-----------------------------------------------------------------------------
(* Properties of the embedding resolver *)

\* The embedding backends a provider maps to.
BackendsFor(provider) ==
    CASE provider = "google" -> {"GoogleGenerativeAIEmbeddings"}
      [] provider = "openai" -> {"OpenAIEmbeddings"}
      [] provider = "anthropic" -> {"OpenAIEmbeddings"}
      [] provider = "ollama" -> {"OllamaEmbeddings", "HuggingFaceEmbeddings"}
      [] OTHER -> {}

\* The credentials the configuration holds for a provider: its own key, and
\* the legacy api_key when the provider is the legacy provider, unless that
\* key is the one entered for another provider.
CredentialsOf(c, provider) ==
    LET own == CASE provider = "google" -> c.google_api_key
                 [] provider = "anthropic" -> c.anthropic_api_key
                 [] provider = "openai" -> c.openai_api_key
                 [] OTHER -> None
        legacy == IF c.llm_provider = provider THEN c.api_key ELSE None
        ofOthers == {KeyOf[p] : p \in (DOMAIN KeyOf) \ {provider}}
    IN {key \in {own, legacy} : Truthy(key)} \ ofOthers

\* C16: the embedding backend of the store is the one mapped to the indexing
\* provider, get_index_provider_model()[1], whatever the chat provider is,
\* and it is given a credential of that provider.
C16_EmbeddingsFollowIndexProvider ==
    LET provider == GetIndexProviderModel(config)[1] IN
    lastQuery.op = "VectorStore"
      => /\ provider \in {"google", "openai"} => store.constructed
         /\ store.constructed
              => /\ store.embeddings.backend \in BackendsFor(provider)
                 /\ provider \in {"google", "openai"}
                      => store.embeddings.api_key \in CredentialsOf(config, provider)

\* C18: for anthropic the resolver returns the OpenAI embedding model when the
\* configuration holds an OpenAI credential and fails when it holds none; an
\* unknown provider name fails.
C18_AnthropicNeedsOpenAIKey ==
    lastQuery.op = "VectorStore"
      => /\ config.llm_provider = "anthropic"
              => IF Truthy(config.openai_api_key)
                 THEN /\ store.constructed
                      /\ store.embeddings.backend = "OpenAIEmbeddings"
                      /\ store.embeddings.model = "text-embedding-3-small"
                 ELSE /\ ~store.constructed
                      /\ lastQuery.value = "raise"
         /\ config.llm_provider \notin {"google", "anthropic", "openai", "ollama"}
              => /\ ~store.constructed
                 /\ lastQuery.value = "raise"

-----------------------------------------------------------------------------
(* Properties of the folder context *)

StartsWith(s, prefix) ==
    Len(s) >= Len(prefix) /\ SubSeq(s, 1, Len(prefix)) = prefix

\* The keys of the folder context.
FolderContextKeys ==
    {"project_category", "main_phase", "sub_category", "specific_area",
     "folder_hierarchy"}

\* C21: every chunk stored by the ingestion pipeline has content that begins
\* with the synthesized context header and carries the folder-context
\* metadata keys.
C21_StoredChunksCarryContextHeader ==
    \A chunk \in collection :
        /\ StartsWith(chunk.context_prefix, "\nDocument Context:")
        /\ FolderContextKeys \subseteq DOMAIN chunk.folder_context

\* The file of the call is under the project root of the call.
UnderRoot(call) ==
    LET file_parts == Parts(call.file_path)
        root_parts == Parts(call.project_path)
    IN /\ Len(file_parts) > Len(root_parts)
       /\ SubSeq(file_parts, 1, Len(root_parts)) = root_parts

\* The path components between the root and the file name.
Between(call) ==
    SubSeq(Parts(call.file_path), Len(Parts(call.project_path)) + 1,
           Len(Parts(call.file_path)) - 1)

LevelKeys == <<"main_phase", "project_category", "sub_category", "specific_area">>

\* The phase names the lookup table knows, with their descriptions.
KnownPhases ==
    {<<"01.Origination&Dev", "Project Development and Origination Phase">>,
     <<"02.Execution", "Project Construction and Execution Phase">>,
     <<"03.Operation", "Project Operation and Maintenance Phase">>}

\* C22: for a file under the project root, _extract_folder_context maps the
\* components between root and file name by position (0 main_phase,
\* 1 project_category, 2 sub_category, 3 specific_area), every missing level
\* being ""; phase_description is non-empty whenever a main phase exists, the
\* table's description for a known phase and the name itself otherwise; a
\* file outside the root yields the sentinel mapping, every level "unknown".
C22_FolderContextByPosition ==
    lastProcess.op = "_extract_folder_context"
      => LET context == lastProcess.context
             between == Between(lastProcess)
         IN IF UnderRoot(lastProcess)
            THEN /\ \A i \in 1..4 :
                       context[LevelKeys[i]]
                         = IF i <= Len(between) THEN between[i] ELSE ""
                 /\ between # <<>>
                      => /\ "phase_description" \in DOMAIN context
                         /\ context.phase_description # ""
                         /\ \A known \in KnownPhases :
                               between[1] = known[1]
                                 => context.phase_description = known[2]
                         /\ (\A known \in KnownPhases : between[1] # known[1])
                               => context.phase_description = between[1]
            ELSE /\ \A key \in FolderContextKeys : context[key] = "unknown"
                 /\ context.phase_description = "Unknown project phase"

\* root/01.Origination&Dev/ACES/report.pdf: two levels given, two missing.
C22_Witness ==
    /\ lastProcess.op = "_extract_folder_context"
    /\ lastProcess.file_path = "/proj/01.Origination&Dev/ACES/report.pdf"
    /\ lastProcess.project_path = ProjectPath
    /\ lastProcess.context.main_phase = "01.Origination&Dev"
    /\ lastProcess.context.project_category = "ACES"
    /\ lastProcess.context.sub_category = ""
    /\ lastProcess.context.phase_description # ""

-----------------------------------------------------------------------------
(* Properties of the metadata cache and of the answering client *)

\* C27: after any sequence of update runs, every file with a record in the
\* file-metadata cache has at least one chunk in the vector collection.
C27_RecordedFilesHaveChunks ==
    \A path \in DOMAIN metadata : \E chunk \in collection : chunk.source = path

\* The record the cache holds for a file, if any.
NoRecord == [hash |-> <<"md5", MaxContent + 1>>, processed_at |-> 0,
             chunk_count |-> 0]

RecordOf(md, path) == IF path \in DOMAIN md THEN md[path] ELSE NoRecord

\* C28: in an update run a file's metadata record is written only after the
\* file's chunks were added to the collection in the same run; if no chunk of
\* the file was added (process_file gave nothing, or add_documents raised) the
\* record is neither written nor changed, the file is reported as failed, and
\* the next incremental run selects it again.
C28_MetadataOnlyAfterChunks ==
    [][ lastRun'.op = "update"
          => \A path \in Range(lastRun'.selected) :
                LET added == \E chunk \in collection' :
                                 chunk.source = path /\ chunk.batch = nRuns'
                IN /\ RecordOf(metadata', path) # RecordOf(metadata, path)
                        => added
                   /\ ~added
                        => /\ RecordOf(metadata', path) = RecordOf(metadata, path)
                           /\ path \in Range(lastRun'.failed)
                           /\ path \in Range(find_files(FALSE))' ]_vars

\* C25: every answer of a query front end (cli ask, cli chat, GUI chat) is
\* generated by a client built for the resolved chat provider and model:
\* the runtime override, else the configured chat pair, else the legacy pair.
C25_AnswersUseChatModel ==
    (lastQuery.op \in FrontEnds /\ lastQuery.answered)
      => lastQuery.client = PriorityChain(config)

-----------------------------------------------------------------------------
(* Properties of the configuration file *)

PersistedFields(c) ==
    [project_path |-> c.project_path, api_key |-> c.api_key,
     llm_provider |-> c.llm_provider, llm_model |-> c.llm_model,
     index_provider |-> c.index_provider, index_model |-> c.index_model,
     chat_provider |-> c.chat_provider, chat_model |-> c.chat_model,
     google_api_key |-> c.google_api_key,
     anthropic_api_key |-> c.anthropic_api_key,
     openai_api_key |-> c.openai_api_key]

\* C23: load() returns None when there is no configuration file; after a
\* save(c) the file exists, and load() returns a configuration equal to c on
\* every persisted field (project path, credentials, legacy, index and chat
\* provider and model) with the runtime override unset, and the file never
\* holds the runtime override.
C23_SaveLoadRoundTrip ==
    /\ (lastCommand.op = "load" /\ ~exists) => lastCommand.value = "None"
    /\ (lastCommand.op = "save" /\ lastCommand.value = "None") => exists
    /\ exists =>
         {"current_chat_provider", "current_chat_model"}
             \cap DOMAIN config_file.data = {}
    /\ (lastCommand.op = "load" /\ lastCommand.saved # NoConfig) =>
         /\ lastCommand.value = "config"
         /\ PersistedFields(lastCommand.loaded)
                = PersistedFields(lastCommand.saved)
         /\ lastCommand.loaded.current_chat_provider = None
         /\ lastCommand.loaded.current_chat_model = None

-----------------------------------------------------------------------------
(* Properties of the commands on a project without configuration *)

Commands == {"status", "ask", "update"}

\* C24: while the project has no configuration, a step of status, ask or
\* update reports "not initialized" and exits with code 1, and leaves the
\* vector store unopened, the files unscanned, every provider uncalled and
\* the persisted state (configuration file, metadata cache, collection) as
\* it was; only setup changes anything.
C24_NotInitializedCommandsStop ==
    [][~exists =>
         \/ exists'
         \/ /\ lastCommand'.op \in Commands
            /\ lastCommand'.value = "exit"
            /\ lastCommand'.exit_code = 1
            /\ Contains(lastCommand'.message, "not initialized")
            /\ UNCHANGED <<mmVars, ingVars, qVars, config_file, guiVars>>]_vars

\* update was run in a project without configuration, and stopped.
C24_Witness ==
    /\ ~exists
    /\ lastCommand.op = "update"
    /\ lastCommand.exit_code = 1
    /\ store = NoStore
    /\ nRuns = 0

-----------------------------------------------------------------------------
(* Properties of the GUI's threads *)

\* The ingestion threads that were started and have not ended.
ActiveWorkers == {i \in DOMAIN workers : workers[i].pc # "done"}

\* C26: the GUI serializes ingestion: at no time are two ingestion threads
\* (update, forced update, single-file reindex) active on the project's
\* collection and metadata cache.
C26_IngestionSerialized == Cardinality(ActiveWorkers) <= 1

\* C29: when the ingestion threads that overlapped have ended, the metadata
\* cache holds a record for every file one of them processed successfully:
\* no interleaving of load_metadata and save_metadata loses a record.
C29_NoMetadataRecordLost ==
    (ActiveWorkers = {}) =>
        \A i \in DOMAIN workers :
            \A path \in workers[i].processed : path \in DOMAIN metadata

\* C30: in the GUI chat, the 'model' of every conversation-history entry is
\* the provider:model of the client that generated the entry's answer,
\* whatever model switches the main thread made while the request was in
\* flight.
C30_HistoryModelIsAnsweringClient ==
    \A n \in DOMAIN conversation_history :
        LET entry == conversation_history[n] IN
        entry.model = ClientKey(entry.client[1], entry.client[2])

=============================================================================
